---- MODULE Spec2Model ----
(***************************************************************************)
(* A model of the SOCKS5 server negotiation driver of socks5-server and    *)
(* of the socks5-proto frame codecs it uses.                               *)
(*                                                                         *)
(* One TCP connection is followed from accept to the Ready stage.  The     *)
(* client's bytes are fixed in the initial state (`input`), the driver     *)
(* consumes them through the decoders of socks5-proto, and every frame the *)
(* driver hands to write_all is appended to `written`.  Each await of a    *)
(* handler between whose parts the properties distinguish is one step.     *)
(***************************************************************************)
EXTENDS Integers, Sequences, FiniteSets, TLC

VARIABLES
    input,      \* the bytes the client sends on the TCP stream, in order
    rpos,       \* number of bytes of `input` consumed from the stream so far
    auth,       \* the auth adaptor shared by the Server (Arc<dyn Auth>)
    handle,     \* who owns the TcpStream: [kind, stage, api]
    op,         \* the driver operation in progress ("none" when the caller holds the handle)
    pc,         \* position inside the operation in progress
    methods,    \* req.methods of the handshake request decoded by the operation in progress
    command,    \* req.command of the request the driver decoded ("none" before that)
    written,    \* frames accepted by the stream, in order: [frame, bytes, by]
    executed,   \* number of invocations of Auth::execute on this stream
    output,     \* the value returned by Auth::execute
    result,     \* the value last returned to the caller by a driver operation
    shut,       \* TRUE once shutdown() was called on the stream, and by whom
    payloadIO,  \* raw reads/writes the caller made through a handle: set of [kind, stage, api, via]
    other,      \* a second connection accepted from the same Server, while its task is
                \* not the one running (NoConn when there is none)
    codecIn,    \* the value or the bytes handed to a socks5-proto codec on its own
    codecOut,   \* what the codec returned for it
    buf_size,   \* AssociatedUdpSocket::buf_size
    socket,     \* what the UdpSocket of an AssociatedUdpSocket did in the last call
    udpResult,  \* what the last call on the AssociatedUdpSocket returned
    peer,       \* the client's sending half of the TCP stream: "open", "closed" or "reset"
    reads       \* what each stream.read of the wait_until_closed in progress, or of the
                \* last one, returned

vars == <<input, rpos, auth, handle, op, pc, methods, command, written, executed, output,
          result, shut, payloadIO, other, codecIn, codecOut, buf_size, socket, udpResult,
          peer, reads>>

\* what no step of the connection that is running touches
elsewhere == <<other, codecIn, codecOut, buf_size, socket, udpResult, peer, reads>>

----------------------------------------------------------------------------
(* Program constants                                                       *)

SOCKS_VERSION == 5
SUBNEGOTIATION_VERSION == 1

ATYP_IPV4 == 1
ATYP_FQDN == 3
ATYP_IPV6 == 4

CMD_CONNECT == 1
CMD_BIND == 2
CMD_ASSOCIATE == 3

METHOD_NONE == 0
METHOD_PASSWORD == 2
METHOD_UNACCEPTABLE == 255

STATUS_SUCCEEDED == 0
STATUS_FAILED == 255

REPLY_SUCCEEDED == 0
REPLY_GENERAL_FAILURE == 1
REPLY_CONNECTION_NOT_ALLOWED == 2
REPLY_NETWORK_UNREACHABLE == 3
REPLY_HOST_UNREACHABLE == 4
REPLY_CONNECTION_REFUSED == 5
REPLY_TTL_EXPIRED == 6
REPLY_COMMAND_NOT_SUPPORTED == 7
REPLY_ADDRESS_TYPE_NOT_SUPPORTED == 8

U8_MAX == 255

----------------------------------------------------------------------------
(* Bounds of the model                                                     *)

\* how many raw payload reads/writes the caller makes through one handle
MaxPayloadIO == 1

----------------------------------------------------------------------------
(* Reading from the stream                                                 *)

Ok(v, p) == [ok |-> TRUE, val |-> v, pos |-> p]
Err(e, p) == [ok |-> FALSE, err |-> e, pos |-> p]

IoError(k) == [type |-> "Io", kind |-> k]

\* AsyncReadExt::read_exact / read_u8 on a stream whose peer sent `buf` and then
\* closed: n bytes when they are there, UnexpectedEof (having drained the
\* stream) when they are not.
ReadExact(buf, pos, n) ==
    IF pos + n <= Len(buf)
    THEN Ok(SubSeq(buf, pos + 1, pos + n), pos + n)
    ELSE Err(IoError("UnexpectedEof"), Len(buf))

\* faulty variant: a read gives up on a stream that is still open
ReadReady_TimesOut(r) == TRUE

\* read_from(..).await is ready with r: the frame is whole, or it is refused on
\* the bytes that came, or the stream ended; until then the await is pending
ReadReady(r) == IF r.ok THEN TRUE ELSE r.err # IoError("UnexpectedEof") \/ peer # "open"

U16BE(hi, lo) == hi * (U8_MAX + 1) + lo
HiByte(x) == (x \div (U8_MAX + 1)) % (U8_MAX + 1)
LoByte(x) == x % (U8_MAX + 1)

----------------------------------------------------------------------------
(* socks5-proto: Address                                                   *)

IsCont(b) == b >= 128 /\ b <= 191

\* the number of bytes of the character a first byte b announces, 0 when b
\* cannot start a character
Utf8Width(b) ==
    IF b < 128 THEN 1
    ELSE IF b >= 194 /\ b <= 223 THEN 2
    ELSE IF b >= 224 /\ b <= 239 THEN 3
    ELSE IF b >= 240 /\ b <= 244 THEN 4
    ELSE 0

\* a well-formed character starts at index i of s and the next one, if any,
\* starts right after it
Utf8CharAt(s, i) ==
    LET b == s[i]
        w == Utf8Width(b)
    IN  /\ w > 0
        /\ i + w - 1 <= Len(s)
        /\ \A j \in (i + 1)..(i + w - 1) : IsCont(s[j])
        /\ (b = 224 => s[i + 1] >= 160)
        /\ (b = 237 => s[i + 1] <= 159)
        /\ (b = 240 => s[i + 1] >= 144)
        /\ (b = 244 => s[i + 1] <= 143)
        /\ (i + w <= Len(s) => ~IsCont(s[i + w]))

\* String::from_utf8 succeeds: the bytes are well-formed UTF-8, that is, the
\* first byte and every byte that is not a continuation byte start a
\* well-formed character
IsUtf8(s) ==
    /\ (s # <<>> => ~IsCont(s[1]))
    /\ \A i \in 1..Len(s) : ~IsCont(s[i]) => Utf8CharAt(s, i)

SocketAddressV4(ip, port) == [kind |-> "V4", ip |-> ip, port |-> port]
SocketAddressV6(segs, port) == [kind |-> "V6", segs |-> segs, port |-> port]
DomainAddress(name, port) == [kind |-> "Domain", name |-> name, port |-> port]

\* Address::unspecified
Unspecified == SocketAddressV4(<<0, 0, 0, 0>>, 0)

\* Address::read_from
AddressReadFrom(buf, pos) ==
    LET t == ReadExact(buf, pos, 1) IN
    IF ~t.ok THEN t
    ELSE LET atyp == t.val[1] IN
         IF atyp = ATYP_IPV4 THEN
             LET b == ReadExact(buf, t.pos, 6) IN
             IF ~b.ok THEN b
             ELSE Ok(SocketAddressV4(SubSeq(b.val, 1, 4), U16BE(b.val[5], b.val[6])),
                     b.pos)
         ELSE IF atyp = ATYP_FQDN THEN
             LET l == ReadExact(buf, t.pos, 1) IN
             IF ~l.ok THEN l
             ELSE LET len == l.val[1]
                      b == ReadExact(buf, l.pos, len + 2)
                  IN  IF ~b.ok THEN b
                      ELSE IF ~IsUtf8(SubSeq(b.val, 1, len))
                           THEN Err(IoError("InvalidData"), b.pos)
                      ELSE Ok(DomainAddress(SubSeq(b.val, 1, len),
                                            U16BE(b.val[len + 1], b.val[len + 2])),
                              b.pos)
         ELSE IF atyp = ATYP_IPV6 THEN
             LET b == ReadExact(buf, t.pos, 18) IN
             IF ~b.ok THEN b
             ELSE Ok(SocketAddressV6([i \in 1..8 |-> U16BE(b.val[2 * i - 1], b.val[2 * i])],
                                     U16BE(b.val[17], b.val[18])),
                     b.pos)
         \* the `atyp =>` arm: an io::Error of kind Unsupported, whose message
         \* names the type byte
         ELSE Err(IoError("Unsupported"), t.pos)

\* Address::write_to_buf
AddressWriteToBuf(addr) ==
    IF addr.kind = "V4"
    THEN <<ATYP_IPV4>> \o addr.ip \o <<HiByte(addr.port), LoByte(addr.port)>>
    ELSE IF addr.kind = "V6"
    THEN <<ATYP_IPV6>>
         \o [i \in 1..16 |-> IF i % 2 = 1 THEN HiByte(addr.segs[(i + 1) \div 2])
                                          ELSE LoByte(addr.segs[i \div 2])]
         \o <<HiByte(addr.port), LoByte(addr.port)>>
    ELSE <<ATYP_FQDN, Len(addr.name) % (U8_MAX + 1)>> \o addr.name
         \o <<HiByte(addr.port), LoByte(addr.port)>>

\* faulty variant: the length byte of a domain address is not counted
AddressSerializedLen_NoLengthByte(addr) ==
    1 + (IF addr.kind = "V4" THEN 6
         ELSE IF addr.kind = "V6" THEN 18
         ELSE Len(addr.name) + 2)

\* Address::serialized_len
AddressSerializedLen(addr) ==
    1 + (IF addr.kind = "V4" THEN 6
         ELSE IF addr.kind = "V6" THEN 18
         ELSE 1 + Len(addr.name) + 2)

\* Address::max_serialized_len
MaxSerializedLen == 1 + 1 + U8_MAX + 2

----------------------------------------------------------------------------
(* socks5-proto: Command, Reply                                            *)

\* faulty variant: a fourth command code is taken for CONNECT
CommandTryFrom_FourCodes(code) ==
    IF code \in { CMD_CONNECT, 4 } THEN [ok |-> TRUE, val |-> "Connect"]
    ELSE IF code = CMD_BIND THEN [ok |-> TRUE, val |-> "Bind"]
    ELSE IF code = CMD_ASSOCIATE THEN [ok |-> TRUE, val |-> "Associate"]
    ELSE [ok |-> FALSE, err |-> code]

\* TryFrom<u8> for Command
CommandTryFrom(code) ==
    IF code = CMD_CONNECT THEN [ok |-> TRUE, val |-> "Connect"]
    ELSE IF code = CMD_BIND THEN [ok |-> TRUE, val |-> "Bind"]
    ELSE IF code = CMD_ASSOCIATE THEN [ok |-> TRUE, val |-> "Associate"]
    ELSE [ok |-> FALSE, err |-> code]

\* From<Command> for u8
CommandToU8(cmd) ==
    IF cmd = "Connect" THEN CMD_CONNECT
    ELSE IF cmd = "Bind" THEN CMD_BIND
    ELSE CMD_ASSOCIATE

\* enum Reply
Reply ==
    { "Succeeded", "GeneralFailure", "ConnectionNotAllowed", "NetworkUnreachable",
      "HostUnreachable", "ConnectionRefused", "TtlExpired", "CommandNotSupported",
      "AddressTypeNotSupported" }

\* faulty variant: the last code is not accepted
ReplyTryFrom_EightCodes(code) ==
    IF code = REPLY_SUCCEEDED THEN [ok |-> TRUE, val |-> "Succeeded"]
    ELSE IF code = REPLY_GENERAL_FAILURE THEN [ok |-> TRUE, val |-> "GeneralFailure"]
    ELSE IF code = REPLY_CONNECTION_NOT_ALLOWED
    THEN [ok |-> TRUE, val |-> "ConnectionNotAllowed"]
    ELSE IF code = REPLY_NETWORK_UNREACHABLE THEN [ok |-> TRUE, val |-> "NetworkUnreachable"]
    ELSE IF code = REPLY_HOST_UNREACHABLE THEN [ok |-> TRUE, val |-> "HostUnreachable"]
    ELSE IF code = REPLY_CONNECTION_REFUSED THEN [ok |-> TRUE, val |-> "ConnectionRefused"]
    ELSE IF code = REPLY_TTL_EXPIRED THEN [ok |-> TRUE, val |-> "TtlExpired"]
    ELSE IF code = REPLY_COMMAND_NOT_SUPPORTED
    THEN [ok |-> TRUE, val |-> "CommandNotSupported"]
    ELSE [ok |-> FALSE, err |-> code]

\* TryFrom<u8> for Reply. The error of the last arm is the io::Error of kind
\* InvalidData that names the code; it is kept as the code, which is what
\* Response::read_from stores in InvalidReply.
ReplyTryFrom(code) ==
    IF code = REPLY_SUCCEEDED THEN [ok |-> TRUE, val |-> "Succeeded"]
    ELSE IF code = REPLY_GENERAL_FAILURE THEN [ok |-> TRUE, val |-> "GeneralFailure"]
    ELSE IF code = REPLY_CONNECTION_NOT_ALLOWED
    THEN [ok |-> TRUE, val |-> "ConnectionNotAllowed"]
    ELSE IF code = REPLY_NETWORK_UNREACHABLE THEN [ok |-> TRUE, val |-> "NetworkUnreachable"]
    ELSE IF code = REPLY_HOST_UNREACHABLE THEN [ok |-> TRUE, val |-> "HostUnreachable"]
    ELSE IF code = REPLY_CONNECTION_REFUSED THEN [ok |-> TRUE, val |-> "ConnectionRefused"]
    ELSE IF code = REPLY_TTL_EXPIRED THEN [ok |-> TRUE, val |-> "TtlExpired"]
    ELSE IF code = REPLY_COMMAND_NOT_SUPPORTED
    THEN [ok |-> TRUE, val |-> "CommandNotSupported"]
    ELSE IF code = REPLY_ADDRESS_TYPE_NOT_SUPPORTED
    THEN [ok |-> TRUE, val |-> "AddressTypeNotSupported"]
    ELSE [ok |-> FALSE, err |-> code]

\* From<Reply> for u8
ReplyToU8(reply) ==
    IF reply = "Succeeded" THEN REPLY_SUCCEEDED
    ELSE IF reply = "GeneralFailure" THEN REPLY_GENERAL_FAILURE
    ELSE IF reply = "ConnectionNotAllowed" THEN REPLY_CONNECTION_NOT_ALLOWED
    ELSE IF reply = "NetworkUnreachable" THEN REPLY_NETWORK_UNREACHABLE
    ELSE IF reply = "HostUnreachable" THEN REPLY_HOST_UNREACHABLE
    ELSE IF reply = "ConnectionRefused" THEN REPLY_CONNECTION_REFUSED
    ELSE IF reply = "TtlExpired" THEN REPLY_TTL_EXPIRED
    ELSE IF reply = "CommandNotSupported" THEN REPLY_COMMAND_NOT_SUPPORTED
    ELSE REPLY_ADDRESS_TYPE_NOT_SUPPORTED

----------------------------------------------------------------------------
(* socks5-proto: frames                                                    *)

ProtocolVersion(v) == [type |-> "Protocol", variant |-> "ProtocolVersion", version |-> v]

\* faulty variant: the frame is read through a buffer that takes in whatever
\* the stream holds
HandshakeRequestReadFrom_Buffered(buf, pos) ==
    LET v == ReadExact(buf, pos, 1) IN
    IF ~v.ok THEN v
    ELSE IF v.val[1] # SOCKS_VERSION THEN Err(ProtocolVersion(v.val[1]), v.pos)
    ELSE LET n == ReadExact(buf, v.pos, 1) IN
         IF ~n.ok THEN n
         ELSE LET ms == ReadExact(buf, n.pos, n.val[1]) IN
              IF ms.ok THEN Ok(ms.val, Len(buf)) ELSE ms

\* handshake::Request::read_from
HandshakeRequestReadFrom(buf, pos) ==
    LET v == ReadExact(buf, pos, 1) IN
    IF ~v.ok THEN v
    ELSE IF v.val[1] # SOCKS_VERSION THEN Err(ProtocolVersion(v.val[1]), v.pos)
    ELSE LET n == ReadExact(buf, v.pos, 1) IN
         IF ~n.ok THEN n
         ELSE ReadExact(buf, n.pos, n.val[1])

\* handshake::Response::write_to_buf
HandshakeResponseWriteToBuf(method) == <<SOCKS_VERSION, method>>

\* faulty variant: a reserved byte other than 0x00 is refused
RequestReadFrom_ReservedChecked(buf, pos) ==
    LET v == ReadExact(buf, pos, 1) IN
    IF ~v.ok THEN v
    ELSE IF v.val[1] # SOCKS_VERSION THEN Err(ProtocolVersion(v.val[1]), v.pos)
    ELSE LET c == ReadExact(buf, v.pos, 1) IN
         IF ~c.ok THEN c
         ELSE LET cmd == CommandTryFrom(c.val[1]) IN
              IF ~cmd.ok
              THEN Err([type |-> "Protocol", variant |-> "InvalidCommand",
                        version |-> v.val[1], command |-> cmd.err], c.pos)
              ELSE LET r == ReadExact(buf, c.pos, 1) IN
                   IF ~r.ok THEN r
                   ELSE IF r.val[1] # 0 THEN Err(IoError("InvalidData"), r.pos)
                   ELSE LET a == AddressReadFrom(buf, r.pos) IN
                        IF a.ok
                        THEN Ok([command |-> cmd.val, address |-> a.val], a.pos)
                        ELSE a

\* Request::read_from
RequestReadFrom(buf, pos) ==
    LET v == ReadExact(buf, pos, 1) IN
    IF ~v.ok THEN v
    ELSE IF v.val[1] # SOCKS_VERSION THEN Err(ProtocolVersion(v.val[1]), v.pos)
    ELSE LET c == ReadExact(buf, v.pos, 1) IN
         IF ~c.ok THEN c
         ELSE LET cmd == CommandTryFrom(c.val[1]) IN
              IF ~cmd.ok
              THEN Err([type |-> "Protocol", variant |-> "InvalidCommand",
                        version |-> v.val[1], command |-> cmd.err], c.pos)
              ELSE LET r == ReadExact(buf, c.pos, 1) IN
                   IF ~r.ok THEN r
                   ELSE LET a == AddressReadFrom(buf, r.pos) IN
                        IF a.ok
                        THEN Ok([command |-> cmd.val, address |-> a.val], a.pos)
                        ELSE IF a.err.type = "InvalidType"
                        THEN Err([type |-> "Protocol",
                                  variant |-> "InvalidAddressTypeInRequest",
                                  version |-> v.val[1], command |-> cmd.val,
                                  address_type |-> a.err.code], a.pos)
                        ELSE a

\* Response::write_to_buf
ResponseWriteToBuf(reply, addr) ==
    <<SOCKS_VERSION, ReplyToU8(reply), 0>> \o AddressWriteToBuf(addr)

\* handshake::password::Request::read_from
PasswordRequestReadFrom(buf, pos) ==
    LET v == ReadExact(buf, pos, 1) IN
    IF ~v.ok THEN v
    ELSE IF v.val[1] # SUBNEGOTIATION_VERSION THEN Err(IoError("Unsupported"), v.pos)
    ELSE LET u == ReadExact(buf, v.pos, 1) IN
         IF ~u.ok THEN u
         ELSE LET ulen == u.val[1]
                  b == ReadExact(buf, u.pos, ulen + 1)
              IN  IF ~b.ok THEN b
                  ELSE LET plen == b.val[ulen + 1]
                           p == ReadExact(buf, b.pos, plen)
                       IN  IF ~p.ok THEN p
                           ELSE Ok([username |-> SubSeq(b.val, 1, ulen),
                                    password |-> p.val], p.pos)

\* handshake::password::Response::write_to_buf
PasswordResponseWriteToBuf(status) ==
    <<SUBNEGOTIATION_VERSION, IF status THEN STATUS_SUCCEEDED ELSE STATUS_FAILED>>

\* handshake::Request::write_to_buf
HandshakeRequestWriteToBuf(ms) == <<SOCKS_VERSION, Len(ms) % (U8_MAX + 1)>> \o ms

\* handshake::Request::serialized_len
HandshakeRequestSerializedLen(ms) == 1 + 1 + Len(ms)

\* HandshakeResponse::read_from: a version other than 5 is an io::Error of
\* kind Unsupported
HandshakeResponseReadFrom(buf, pos) ==
    LET v == ReadExact(buf, pos, 1) IN
    IF ~v.ok THEN v
    ELSE IF v.val[1] # SOCKS_VERSION THEN Err(IoError("Unsupported"), v.pos)
    ELSE LET m == ReadExact(buf, v.pos, 1) IN
         IF ~m.ok THEN m ELSE Ok(m.val[1], m.pos)

\* HandshakeResponse::serialized_len
HandshakeResponseSerializedLen(method) == 2

\* Request::write_to_buf
RequestWriteToBuf(req) ==
    <<SOCKS_VERSION, CommandToU8(req.command), 0>> \o AddressWriteToBuf(req.address)

\* Request::serialized_len
RequestSerializedLen(req) == 1 + 1 + 1 + AddressSerializedLen(req.address)

\* Response::read_from
ResponseReadFrom(buf, pos) ==
    LET v == ReadExact(buf, pos, 1) IN
    IF ~v.ok THEN v
    ELSE IF v.val[1] # SOCKS_VERSION THEN Err(ProtocolVersion(v.val[1]), v.pos)
    ELSE LET c == ReadExact(buf, v.pos, 1) IN
         IF ~c.ok THEN c
         ELSE LET rep == ReplyTryFrom(c.val[1]) IN
              IF ~rep.ok
              THEN Err([type |-> "Protocol", variant |-> "InvalidReply",
                        version |-> v.val[1], reply |-> rep.err], c.pos)
              ELSE LET r == ReadExact(buf, c.pos, 1) IN
                   IF ~r.ok THEN r
                   ELSE LET a == AddressReadFrom(buf, r.pos) IN
                        IF a.ok
                        THEN Ok([reply |-> rep.val, address |-> a.val], a.pos)
                        ELSE IF a.err.type = "InvalidType"
                        THEN Err([type |-> "Protocol",
                                  variant |-> "InvalidAddressTypeInResponse",
                                  version |-> v.val[1], reply |-> rep.val,
                                  address_type |-> a.err.code], a.pos)
                        ELSE a

\* Response::serialized_len
ResponseSerializedLen(resp) == 1 + 1 + 1 + AddressSerializedLen(resp.address)

\* UdpHeader::read_from
UdpHeaderReadFrom(buf, pos) ==
    LET rsv == ReadExact(buf, pos, 2) IN
    IF ~rsv.ok THEN rsv
    ELSE LET f == ReadExact(buf, rsv.pos, 1) IN
         IF ~f.ok THEN f
         ELSE LET a == AddressReadFrom(buf, f.pos) IN
              IF a.ok
              THEN Ok([frag |-> f.val[1], address |-> a.val], a.pos)
              ELSE IF a.err.type = "InvalidType"
              THEN Err([type |-> "Protocol", variant |-> "InvalidAddressTypeInUdpHeader",
                        frag |-> f.val[1], address_type |-> a.err.code], a.pos)
              ELSE a

\* UdpHeader::write_to_buf
UdpHeaderWriteToBuf(hdr) == <<0, 0, hdr.frag>> \o AddressWriteToBuf(hdr.address)

\* UdpHeader::serialized_len
UdpHeaderSerializedLen(hdr) == 2 + 1 + AddressSerializedLen(hdr.address)

\* handshake::password::Request::write_to_buf
PasswordRequestWriteToBuf(req) ==
    <<SUBNEGOTIATION_VERSION, Len(req.username) % (U8_MAX + 1)>> \o req.username
    \o <<Len(req.password) % (U8_MAX + 1)>> \o req.password

\* handshake::password::Request::serialized_len
PasswordRequestSerializedLen(req) == 3 + Len(req.username) + Len(req.password)

\* faulty variant: every status byte but 0x00 is taken for a failure
PasswordResponseReadFrom_Liberal(buf, pos) ==
    LET v == ReadExact(buf, pos, 1) IN
    IF ~v.ok THEN v
    ELSE IF v.val[1] # SUBNEGOTIATION_VERSION THEN Err(IoError("Unsupported"), v.pos)
    ELSE LET st == ReadExact(buf, v.pos, 1) IN
         IF ~st.ok THEN st
         ELSE Ok(st.val[1] = STATUS_SUCCEEDED, st.pos)

\* handshake::password::Response::read_from
PasswordResponseReadFrom(buf, pos) ==
    LET v == ReadExact(buf, pos, 1) IN
    IF ~v.ok THEN v
    ELSE IF v.val[1] # SUBNEGOTIATION_VERSION THEN Err(IoError("Unsupported"), v.pos)
    ELSE LET st == ReadExact(buf, v.pos, 1) IN
         IF ~st.ok THEN st
         ELSE IF st.val[1] = STATUS_FAILED THEN Ok(FALSE, st.pos)
         ELSE IF st.val[1] = STATUS_SUCCEEDED THEN Ok(TRUE, st.pos)
         ELSE Err(IoError("InvalidData"), st.pos)

\* handshake::password::Response::serialized_len
PasswordResponseSerializedLen(status) == 2

----------------------------------------------------------------------------
(* The client and the host                                                 *)

\* what the client sends as its method request
HsFrames ==
    { <<5, 1, 0>>, <<5, 2, 1, 2>>, <<5, 2, 0, 2>>, <<5, 0>>, <<4, 1, 0>>, <<5, 2, 0>>, <<>> }

\* what it sends as its username/password request (<<>>: nothing)
PwFrames ==
    { <<>>, <<1, 1, 117, 1, 112>>, <<1, 1, 117, 1, 113>>, <<1, 1, 118, 1, 112>>,
      <<2, 1, 117, 1, 112>>, <<1, 1, 117>> }

\* what it sends as its request
ReqFrames ==
    { <<5, 1, 0, 1, 127, 0, 0, 1, 0, 80>>,
      <<5, 2, 0, 1, 127, 0, 0, 1, 0, 80>>,
      <<5, 3, 0, 1, 0, 0, 0, 0, 0, 0>>,
      <<5, 1, 0, 3, 2, 104, 105, 1, 187>>,
      <<5, 1, 0, 3, 2, 255, 254, 0, 80>>,
      <<5, 2, 7, 4, 32, 1, 13, 184, 0, 0, 0, 0, 0, 0, 0, 0, 0, 0, 0, 1, 0, 80>>,
      <<5, 9, 0, 1, 127, 0, 0, 1, 0, 80>>,
      <<5, 1, 0, 2, 8, 8, 8, 8, 0, 53>>,
      <<4, 1, 0, 1, 127, 0, 0, 1, 0, 80>>,
      <<5, 1, 0, 1, 127, 0>>,
      <<>> }

\* payload the client pipelines behind the negotiation
Tails == { <<>>, <<65>> }

\* auth::NoAuth and auth::Password::new(b"u", b"p")
NoAuth == [adaptor |-> "NoAuth"]
Password(u, p) == [adaptor |-> "Password", username |-> u, password |-> p]
Adaptors == { NoAuth, Password(<<117>>, <<112>>) }

\* Auth::as_handshake_method
AsHandshakeMethod(a) == IF a.adaptor = "NoAuth" THEN METHOD_NONE ELSE METHOD_PASSWORD

\* the replies the host chooses from
Replies == { "Succeeded", "GeneralFailure" }
ReplyAddrs == { Unspecified, DomainAddress(<<104, 105>>, 443) }

\* faulty variant: an empty list is taken as an offer of "no authentication"
Contains_EmptyOffersNone(seq, x) ==
    (seq = <<>> /\ x = METHOD_NONE) \/ \E i \in 1..Len(seq) : seq[i] = x

Contains(seq, x) == \E i \in 1..Len(seq) : seq[i] = x

----------------------------------------------------------------------------
(* Handles                                                                 *)

Handle(k, s, a) == [kind |-> k, stage |-> s, api |-> a]

\* the raw TcpStream, back in the caller's hands
RawStream == Handle("TcpStream", "Raw", handle.api)
\* the TcpStream was dropped inside the driver, which closes the socket
Dropped == Handle("Dropped", "Closed", handle.api)

Idle == op = "none"

\* no second connection; no codec used on its own
NoConn == [tag |-> "none"]
NoCodec == [tag |-> "none"]

\* no AssociatedUdpSocket
NoUdp == [tag |-> "none"]

Init ==
    /\ other = NoConn
    /\ codecIn = NoCodec
    /\ codecOut = NoCodec
    /\ buf_size = 0
    /\ socket = NoUdp
    /\ udpResult = NoUdp
    /\ peer = "closed"
    /\ reads = <<>>
    /\ input \in { h \o p \o r \o t : h \in HsFrames, p \in PwFrames,
                                      r \in ReqFrames, t \in Tails }
    /\ rpos = 0
    /\ auth \in Adaptors
    /\ handle = Handle("IncomingConnection", "NeedAuthenticate", "any")
    /\ op = "none"
    /\ pc = "idle"
    /\ methods = <<>>
    /\ command = "none"
    /\ written = <<>>
    /\ executed = 0
    /\ output = [tag |-> "none"]
    /\ result = [tag |-> "none"]
    /\ shut = "no"
    /\ payloadIO = {}

\* write_all of one whole frame: accepted or failed (always failed once the
\* write half was shut down)
WriteOutcomes == IF shut = "no" THEN BOOLEAN ELSE {FALSE}
\* faulty variant: the first byte of a frame and the rest of it are written
\* by two calls
WriteAll_TwoWrites(who, tag, bytes, ok) ==
    written' = IF ok THEN written \o <<[frame |-> tag, bytes |-> <<Head(bytes)>>, by |-> who],
                                       [frame |-> tag, bytes |-> Tail(bytes), by |-> who]>>
                     ELSE written

WriteAll(who, tag, bytes, ok) ==
    written' = IF ok THEN Append(written, [frame |-> tag, bytes |-> bytes, by |-> who])
                     ELSE written

ReturnWithStream(o, e) ==
    /\ handle' = RawStream
    /\ result' = [tag |-> "Err", op |-> o, err |-> e, stream |-> TRUE]
    /\ op' = "none"
    /\ pc' = "idle"

ReturnDroppingStream(o, e) ==
    /\ handle' = Dropped
    /\ result' = [tag |-> "Err", op |-> o, err |-> e, stream |-> FALSE]
    /\ op' = "none"
    /\ pc' = "idle"

ReturnHandle(o, h, v) ==
    /\ handle' = h
    /\ result' = [tag |-> "Ok", op |-> o, val |-> v]
    /\ op' = "none"
    /\ pc' = "idle"

----------------------------------------------------------------------------
(* Auth::execute                                                           *)

\* faulty variant: NoAuth::execute answers on the stream as the password routine does
ExecuteNoAuth_WritesStatus ==
    /\ pc = "execute"
    /\ auth.adaptor = "NoAuth"
    /\ executed' = executed + 1
    /\ output' = [tag |-> "Ok", val |-> TRUE]
    /\ pc' = "executed"
    /\ written' = Append(written, [frame |-> "PasswordResponse", bytes |-> <<1, 0>>,
                                   by |-> "execute"])
    /\ UNCHANGED <<elsewhere, input, rpos, auth, handle, op, methods, command, result, shut, payloadIO>>

\* NoAuth::execute
ExecuteNoAuth ==
    /\ pc = "execute"
    /\ auth.adaptor = "NoAuth"
    /\ executed' = executed + 1
    /\ output' = [tag |-> "Ok", val |-> TRUE]
    /\ pc' = "executed"
    /\ UNCHANGED <<elsewhere, input, rpos, auth, handle, op, methods, command, written, result, shut, payloadIO>>

\* faulty variant: only the password is compared
ExecutePassword_PasswordOnly ==
    /\ pc = "execute"
    /\ auth.adaptor = "Password"
    /\ executed' = executed + 1
    /\ LET r == PasswordRequestReadFrom(input, rpos) IN
       /\ rpos' = r.pos
       /\ \E ok \in WriteOutcomes :
            IF ~r.ok
            THEN /\ output' = [tag |-> "Err", err |-> r.err]
                 /\ UNCHANGED written
            ELSE LET status == r.val.password = auth.password
                 IN  /\ WriteAll("execute", "PasswordResponse", PasswordResponseWriteToBuf(status), ok)
                     /\ output' = IF ok THEN [tag |-> "Ok", val |-> status]
                                        ELSE [tag |-> "Err", err |-> IoError("WriteFailed")]
    /\ pc' = "executed"
    /\ UNCHANGED <<elsewhere, input, auth, handle, op, methods, command, result, shut, payloadIO>>

\* faulty variant: a request that could not be read is answered with a failure response
ExecutePassword_AnswersReadError ==
    /\ pc = "execute"
    /\ auth.adaptor = "Password"
    /\ executed' = executed + 1
    /\ LET r == PasswordRequestReadFrom(input, rpos) IN
       /\ rpos' = r.pos
       /\ \E ok \in WriteOutcomes :
            IF ~r.ok
            THEN /\ output' = [tag |-> "Err", err |-> r.err]
                 /\ WriteAll("execute", "PasswordResponse", PasswordResponseWriteToBuf(FALSE), ok)
            ELSE LET status == r.val.username = auth.username
                               /\ r.val.password = auth.password
                 IN  /\ WriteAll("execute", "PasswordResponse", PasswordResponseWriteToBuf(status), ok)
                     /\ output' = IF ok THEN [tag |-> "Ok", val |-> status]
                                        ELSE [tag |-> "Err", err |-> IoError("WriteFailed")]
    /\ pc' = "executed"
    /\ UNCHANGED <<elsewhere, input, auth, handle, op, methods, command, result, shut, payloadIO>>

\* Password::execute
ExecutePassword ==
    /\ pc = "execute"
    /\ auth.adaptor = "Password"
    /\ ReadReady(PasswordRequestReadFrom(input, rpos))
    /\ executed' = executed + 1
    /\ LET r == PasswordRequestReadFrom(input, rpos) IN
       /\ rpos' = r.pos
       /\ \E ok \in WriteOutcomes :
            IF ~r.ok
            THEN /\ output' = [tag |-> "Err", err |-> r.err]
                 /\ UNCHANGED written
            ELSE LET status == r.val.username = auth.username
                               /\ r.val.password = auth.password
                 IN  /\ WriteAll("execute", "PasswordResponse", PasswordResponseWriteToBuf(status), ok)
                     /\ output' = IF ok THEN [tag |-> "Ok", val |-> status]
                                        ELSE [tag |-> "Err", err |-> IoError("WriteFailed")]
    /\ pc' = "executed"
    /\ UNCHANGED <<elsewhere, input, auth, handle, op, methods, command, result, shut, payloadIO>>

----------------------------------------------------------------------------
(* connection/mod.rs: IncomingConnection::authenticate                     *)

\* faulty variant: the error names the method that was written instead of the chosen one
NoAcceptableHandshakeMethod_Written(chosen, ms) ==
    [type |-> "Protocol", variant |-> "NoAcceptableHandshakeMethod",
     version |-> SOCKS_VERSION, chosen_method |-> METHOD_UNACCEPTABLE, methods |-> ms]

NoAcceptableHandshakeMethod(chosen, ms) ==
    [type |-> "Protocol", variant |-> "NoAcceptableHandshakeMethod",
     version |-> SOCKS_VERSION, chosen_method |-> chosen, methods |-> ms]

\* Err((self.stream, err))
AuthenticateErr(e) == ReturnWithStream("authenticate", e)

\* let req = HandshakeRequest::read_from(&mut self.stream).await
AuthenticateRead ==
    /\ Idle
    /\ handle.kind = "IncomingConnection"
    /\ ReadReady(HandshakeRequestReadFrom(input, rpos))
    /\ LET r == HandshakeRequestReadFrom(input, rpos) IN
       /\ rpos' = r.pos
       /\ IF r.ok
          THEN /\ methods' = r.val
               /\ op' = "authenticate"
               /\ pc' = "select"
               /\ handle' = [handle EXCEPT !.api = "mod"]
               /\ UNCHANGED result
          ELSE /\ AuthenticateErr(r.err)
               /\ UNCHANGED methods
    /\ UNCHANGED <<elsewhere, input, auth, command, written, executed, output, shut, payloadIO>>

\* faulty variant: execute is invoked without the method response having been written
AuthenticateSelect_ExecuteFirst ==
    /\ op = "authenticate"
    /\ pc = "select"
    /\ LET chosen_method == AsHandshakeMethod(auth) IN
       \E ok \in WriteOutcomes :
         IF Contains(methods, chosen_method)
         THEN /\ pc' = "execute"
              /\ UNCHANGED <<handle, result, op, written>>
         ELSE /\ WriteAll("authenticate", "MethodResponse",
                          HandshakeResponseWriteToBuf(METHOD_UNACCEPTABLE), ok)
              /\ IF ok
                 THEN ReturnWithStream("authenticate",
                          [type |-> "Protocol", variant |-> "NoAcceptableHandshakeMethod",
                           version |-> SOCKS_VERSION, chosen_method |-> chosen_method,
                           methods |-> methods])
                 ELSE ReturnWithStream("authenticate", IoError("WriteFailed"))
    /\ UNCHANGED <<elsewhere, input, rpos, auth, methods, command, executed, output, shut, payloadIO>>

\* if req.methods.contains(&chosen_method) { write chosen } else { write 0xFF; Err }
AuthenticateSelect ==
    /\ op = "authenticate"
    /\ pc = "select"
    /\ LET chosen_method == AsHandshakeMethod(auth) IN
       \E ok \in WriteOutcomes :
         IF Contains(methods, chosen_method)
         THEN /\ WriteAll("authenticate", "MethodResponse", HandshakeResponseWriteToBuf(chosen_method), ok)
              /\ IF ok
                 THEN /\ pc' = "execute"
                      /\ UNCHANGED <<handle, result, op>>
                 ELSE AuthenticateErr(IoError("WriteFailed"))
         ELSE /\ WriteAll("authenticate", "MethodResponse",
                          HandshakeResponseWriteToBuf(METHOD_UNACCEPTABLE), ok)
              /\ IF ok
                 THEN AuthenticateErr(NoAcceptableHandshakeMethod(chosen_method, methods))
                 ELSE AuthenticateErr(IoError("WriteFailed"))
    /\ UNCHANGED <<elsewhere, input, rpos, auth, methods, command, executed, output, shut, payloadIO>>

\* Ok((Authenticated::new(self.stream), output))
AuthenticateReturn ==
    /\ op = "authenticate"
    /\ pc = "executed"
    /\ ReturnHandle("authenticate", Handle("Authenticated", "NeedCommand", "mod"), output)
    /\ UNCHANGED <<elsewhere, input, rpos, auth, methods, command, written, executed, output, shut, payloadIO>>

----------------------------------------------------------------------------
(* connection/mod.rs: Authenticated::wait_request                          *)

\* faulty variant: wait_request borrows the handle (&mut self) instead of consuming
\* it: the error is returned and the Authenticated handle stays usable
WaitRequestErr_Borrowed(e) ==
    /\ handle' = handle
    /\ result' = [tag |-> "Err", op |-> "wait_request", err |-> e, stream |-> TRUE]
    /\ op' = "none"
    /\ pc' = "idle"

\* faulty variant: `?` instead of the match: the error is returned and the stream dropped
WaitRequestErr_Drop(e) == ReturnDroppingStream("wait_request", e)

\* Err((self.0, err))
WaitRequestErr(e) == ReturnWithStream("wait_request", e)

\* match req.command { ... }
Dispatch(cmd) ==
    IF cmd = "Associate" THEN Handle("Associate", "NeedReply", "mod")
    ELSE IF cmd = "Bind" THEN Handle("Bind", "NeedFirstReply", "mod")
    ELSE Handle("Connect", "NeedReply", "mod")

WaitRequest ==
    /\ Idle
    /\ handle.kind = "Authenticated"
    /\ ReadReady(RequestReadFrom(input, rpos))
    /\ LET r == RequestReadFrom(input, rpos) IN
       /\ rpos' = r.pos
       /\ IF r.ok
          THEN /\ ReturnHandle("wait_request", Dispatch(r.val.command), r.val)
               /\ command' = r.val.command
          ELSE /\ WaitRequestErr(r.err)
               /\ UNCHANGED command
    /\ UNCHANGED <<elsewhere, input, auth, methods, written, executed, output, shut, payloadIO>>

----------------------------------------------------------------------------
(* connection/{connect,bind,associate}.rs: reply                           *)

\* Err((err, self.stream))
ConnectReplyErr(e) == ReturnWithStream("Connect::reply", e)
AssociateReplyErr(e) == ReturnWithStream("Associate::reply", e)
\* resp.write_to(&mut self.stream).await? : self, and the stream in it, is dropped
BindFirstReplyErr(e) == ReturnDroppingStream("Bind<NeedFirstReply>::reply", e)
BindSecondReplyErr(e) == ReturnDroppingStream("Bind<NeedSecondReply>::reply", e)

\* faulty variant: reply is offered by Connect<S> in every stage
ConnectReply_AnyStage ==
    /\ Idle
    /\ handle.kind = "Connect"
    /\ handle.api = "mod"
    /\ \E reply \in Replies, addr \in ReplyAddrs, ok \in WriteOutcomes :
         /\ WriteAll("Connect::reply", "Response", ResponseWriteToBuf(reply, addr), ok)
         /\ IF ok
            THEN ReturnHandle("Connect::reply", Handle("Connect", "Ready", "mod"), reply)
            ELSE ReturnWithStream("Connect::reply", IoError("WriteFailed"))
    /\ UNCHANGED <<elsewhere, input, rpos, auth, methods, command, executed, output, shut, payloadIO>>

\* Connect<NeedReply>::reply
ConnectReply ==
    /\ Idle
    /\ handle = Handle("Connect", "NeedReply", "mod")
    /\ \E reply \in Replies, addr \in ReplyAddrs, ok \in WriteOutcomes :
         /\ WriteAll("Connect::reply", "Response", ResponseWriteToBuf(reply, addr), ok)
         /\ IF ok
            THEN ReturnHandle("Connect::reply", Handle("Connect", "Ready", "mod"), reply)
            ELSE ConnectReplyErr(IoError("WriteFailed"))
    /\ UNCHANGED <<elsewhere, input, rpos, auth, methods, command, executed, output, shut, payloadIO>>

\* Associate<NeedReply>::reply
AssociateReply ==
    /\ Idle
    /\ handle = Handle("Associate", "NeedReply", "mod")
    /\ \E reply \in Replies, addr \in ReplyAddrs, ok \in WriteOutcomes :
         /\ WriteAll("Associate::reply", "Response", ResponseWriteToBuf(reply, addr), ok)
         /\ IF ok
            THEN ReturnHandle("Associate::reply", Handle("Associate", "Ready", "mod"), reply)
            ELSE AssociateReplyErr(IoError("WriteFailed"))
    /\ UNCHANGED <<elsewhere, input, rpos, auth, methods, command, executed, output, shut, payloadIO>>

\* faulty variant: the result of write_to is ignored (`let _ = ...`) and the
\* next-stage handle is returned whether or not the frame was written
BindFirstReply_IgnoreWriteError ==
    /\ Idle
    /\ handle = Handle("Bind", "NeedFirstReply", "mod")
    /\ \E reply \in Replies, addr \in ReplyAddrs, ok \in WriteOutcomes :
         /\ WriteAll("Bind<NeedFirstReply>::reply", "Response", ResponseWriteToBuf(reply, addr), ok)
         /\ ReturnHandle("Bind<NeedFirstReply>::reply",
                         Handle("Bind", "NeedSecondReply", "mod"), reply)
    /\ UNCHANGED <<elsewhere, input, rpos, auth, methods, command, executed, output, shut, payloadIO>>

\* Bind<NeedFirstReply>::reply
BindFirstReply ==
    /\ Idle
    /\ handle = Handle("Bind", "NeedFirstReply", "mod")
    /\ \E reply \in Replies, addr \in ReplyAddrs, ok \in WriteOutcomes :
         /\ WriteAll("Bind<NeedFirstReply>::reply", "Response", ResponseWriteToBuf(reply, addr), ok)
         /\ IF ok
            THEN ReturnHandle("Bind<NeedFirstReply>::reply",
                              Handle("Bind", "NeedSecondReply", "mod"), reply)
            ELSE BindFirstReplyErr(IoError("WriteFailed"))
    /\ UNCHANGED <<elsewhere, input, rpos, auth, methods, command, executed, output, shut, payloadIO>>

\* Bind<NeedSecondReply>::reply
BindSecondReply ==
    /\ Idle
    /\ handle = Handle("Bind", "NeedSecondReply", "mod")
    /\ \E reply \in Replies, addr \in ReplyAddrs, ok \in WriteOutcomes :
         /\ WriteAll("Bind<NeedSecondReply>::reply", "Response", ResponseWriteToBuf(reply, addr), ok)
         /\ IF ok
            THEN ReturnHandle("Bind<NeedSecondReply>::reply",
                              Handle("Bind", "Ready", "mod"), reply)
            ELSE BindSecondReplyErr(IoError("WriteFailed"))
    /\ UNCHANGED <<elsewhere, input, rpos, auth, methods, command, executed, output, shut, payloadIO>>

----------------------------------------------------------------------------
(* connection.rs: IncomingConnection::handshake and the NeedResponse stage *)

\* `?` inside handshake(mut self): the error is returned, self is dropped
HandshakeErr(e) == ReturnDroppingStream("handshake", e)

\* let hs_req = HandshakeRequest::read_from(&mut self.stream).await?
HandshakeRead ==
    /\ Idle
    /\ handle.kind = "IncomingConnection"
    /\ LET r == HandshakeRequestReadFrom(input, rpos) IN
       /\ rpos' = r.pos
       /\ IF r.ok
          THEN /\ methods' = r.val
               /\ op' = "handshake"
               /\ pc' = "select"
               /\ handle' = [handle EXCEPT !.api = "legacy"]
               /\ UNCHANGED result
          ELSE /\ HandshakeErr(r.err)
               /\ UNCHANGED methods
    /\ UNCHANGED <<elsewhere, input, auth, command, written, executed, output, shut, payloadIO>>

\* if hs_req.methods.contains(&chosen_method) { write chosen; execute }
\* else { write Unacceptable }, and in both cases go on to read the request
HandshakeSelect ==
    /\ op = "handshake"
    /\ pc = "select"
    /\ LET chosen_method == AsHandshakeMethod(auth) IN
       \E ok \in WriteOutcomes :
         IF Contains(methods, chosen_method)
         THEN /\ WriteAll("handshake", "MethodResponse", HandshakeResponseWriteToBuf(chosen_method), ok)
              /\ IF ok
                 THEN /\ pc' = "execute"
                      /\ UNCHANGED <<handle, result, op>>
                 ELSE HandshakeErr(IoError("WriteFailed"))
         ELSE /\ WriteAll("handshake", "MethodResponse",
                          HandshakeResponseWriteToBuf(METHOD_UNACCEPTABLE), ok)
              /\ IF ok
                 THEN /\ pc' = "request"
                      /\ UNCHANGED <<handle, result, op>>
                 ELSE HandshakeErr(IoError("WriteFailed"))
    /\ UNCHANGED <<elsewhere, input, rpos, auth, methods, command, executed, output, shut, payloadIO>>

\* self.auth.execute(&mut self.stream).await?
HandshakeExecuted ==
    /\ op = "handshake"
    /\ pc = "executed"
    /\ IF output.tag = "Err"
       THEN HandshakeErr(output.err)
       ELSE /\ pc' = "request"
            /\ UNCHANGED <<handle, result, op>>
    /\ UNCHANGED <<elsewhere, input, rpos, auth, methods, command, written, executed, output, shut, payloadIO>>

\* match req.command { ... } of handshake
Connection(cmd) == Handle(cmd, "NeedResponse", "legacy")

\* let req = match Request::read_from(&mut self.stream).await { ... }
HandshakeRequest ==
    /\ op = "handshake"
    /\ pc = "request"
    /\ LET r == RequestReadFrom(input, rpos) IN
       /\ rpos' = r.pos
       /\ IF r.ok
          THEN /\ ReturnHandle("handshake", Connection(r.val.command), r.val)
               /\ command' = r.val.command
               /\ UNCHANGED written
          ELSE \E ok \in WriteOutcomes :
                 /\ WriteAll("handshake", "Response",
                             ResponseWriteToBuf("GeneralFailure", Unspecified), ok)
                 /\ HandshakeErr(IF ok THEN r.err ELSE IoError("WriteFailed"))
                 /\ UNCHANGED command
    /\ UNCHANGED <<elsewhere, input, auth, methods, executed, output, shut, payloadIO>>

\* Connect<NeedResponse>::response, Bind<NeedResponse>::response,
\* Associate<NeedResponse>::response
Response(kind) ==
    /\ Idle
    /\ handle = Handle(kind, "NeedResponse", "legacy")
    /\ \E reply \in Replies, addr \in ReplyAddrs, ok \in WriteOutcomes :
         /\ WriteAll("response", "Response", ResponseWriteToBuf(reply, addr), ok)
         /\ IF ok
            THEN ReturnHandle("response", Handle(kind, "Ready", "legacy"), reply)
            ELSE ReturnDroppingStream("response", IoError("WriteFailed"))
    /\ UNCHANGED <<elsewhere, input, rpos, auth, methods, command, executed, output, shut, payloadIO>>

ConnectResponse == Response("Connect")
BindResponse == Response("Bind")
AssociateResponse == Response("Associate")

----------------------------------------------------------------------------
(* What the caller can do with the handle it holds                         *)

CommandKinds == {"Connect", "Bind", "Associate"}

\* close() / shutdown() / AsyncWrite::poll_shutdown
OffersShutdown(h) ==
    \/ h.api = "mod" /\ h.kind \in CommandKinds
    \/ h.api = "legacy" /\ h.kind = "Connect" /\ h.stage = "Ready"
    \/ h.kind = "TcpStream"

\* faulty variant: Deref/DerefMut implemented for Bind<S> and Associate<S> in every stage
PayloadVias_DerefAnyStage(h) ==
    (IF h.api = "mod" /\ h.kind = "Connect" THEN {"get_mut"} ELSE {})
    \cup (IF h.api = "mod" /\ h.kind \in {"Bind", "Associate"} THEN {"DerefMut"} ELSE {})
    \cup (IF h.kind \in {"Connect", "Bind", "Associate"} /\ h.stage = "Ready"
             /\ (h.api = "mod" \/ h.kind = "Connect")
          THEN {"AsyncRead/AsyncWrite"} ELSE {})

\* the ways a handle lets the caller read or write bytes of the stream
PayloadVias(h) ==
    (IF h.api = "mod" /\ h.kind = "Connect" THEN {"get_mut"} ELSE {})
    \cup (IF h.api = "mod" /\ h.kind = "Connect" /\ h.stage = "Ready"
          THEN {"AsyncRead/AsyncWrite"} ELSE {})
    \cup (IF h.api = "mod" /\ h.kind \in {"Bind", "Associate"} /\ h.stage = "Ready"
          THEN {"DerefMut", "AsyncRead/AsyncWrite"} ELSE {})
    \cup (IF h.api = "legacy" /\ h.kind = "Connect" /\ h.stage = "Ready"
          THEN {"AsyncRead/AsyncWrite"} ELSE {})

\* From<...> for TcpStream, Connect::into_inner
OffersIntoStream(h) ==
    /\ h.api \in {"any", "mod"}
    /\ h.kind \in {"IncomingConnection", "Authenticated"} \cup CommandKinds

Shutdown ==
    /\ Idle
    /\ OffersShutdown(handle)
    /\ shut = "no"
    /\ shut' = "caller"
    /\ UNCHANGED <<elsewhere, input, rpos, auth, handle, op, pc, methods, command, written, executed, output,
                   result, payloadIO>>

CallerPayloadIO ==
    /\ Idle
    /\ Cardinality(payloadIO) < MaxPayloadIO
    /\ \E via \in PayloadVias(handle), dir \in {"read", "write"} :
         LET rec == [kind |-> handle.kind, stage |-> handle.stage, api |-> handle.api,
                     via |-> via, dir |-> dir]
         IN  /\ rec \notin payloadIO
             /\ payloadIO' = payloadIO \cup {rec}
             /\ IF dir = "read"
                THEN /\ rpos' = IF rpos < Len(input) THEN rpos + 1 ELSE rpos
                     /\ UNCHANGED written
                ELSE /\ written' = IF shut = "no"
                                   THEN Append(written, [frame |-> "Payload",
                                                         bytes |-> <<66>>,
                                                         by |-> "caller"])
                                   ELSE written
                     /\ UNCHANGED rpos
    /\ UNCHANGED <<elsewhere, input, auth, handle, op, pc, methods, command, executed, output, result, shut>>

IntoStream ==
    /\ Idle
    /\ OffersIntoStream(handle)
    /\ handle' = RawStream
    /\ UNCHANGED <<elsewhere, input, rpos, auth, op, pc, methods, command, written, executed, output, result,
                   shut, payloadIO>>

----------------------------------------------------------------------------
(* Two connections accepted from one Server, each in its own task          *)

\* what belongs to one connection: its stream and the state of its handlers
ConnState ==
    [input |-> input, rpos |-> rpos, handle |-> handle, op |-> op, pc |-> pc,
     methods |-> methods, command |-> command, written |-> written,
     executed |-> executed, output |-> output, result |-> result, shut |-> shut,
     payloadIO |-> payloadIO]

\* IncomingConnection::new(stream, self.auth.clone()) on a stream whose client
\* sends `in`
FreshConn(in) ==
    [input |-> in, rpos |-> 0,
     handle |-> Handle("IncomingConnection", "NeedAuthenticate", "any"),
     op |-> "none", pc |-> "idle", methods |-> <<>>, command |-> "none",
     written |-> <<>>, executed |-> 0, output |-> [tag |-> "none"],
     result |-> [tag |-> "none"], shut |-> "no", payloadIO |-> {}]

\* faulty variant: both connections are built on one stream, so the bytes read
\* or written by one are read or written for the other as well
Switch_SharedStream ==
    /\ other # NoConn
    /\ other' = ConnState
    /\ UNCHANGED <<input, rpos, written>>
    /\ handle' = other.handle
    /\ op' = other.op
    /\ pc' = other.pc
    /\ methods' = other.methods
    /\ command' = other.command
    /\ executed' = other.executed
    /\ output' = other.output
    /\ result' = other.result
    /\ shut' = other.shut
    /\ payloadIO' = other.payloadIO
    /\ UNCHANGED <<auth, codecIn, codecOut, buf_size, socket, udpResult, peer, reads>>

\* the task of the running connection yields at an await and the task of the
\* other connection runs: each has its own stream and handler state, the
\* adaptor behind the Arc is the one thing they share
Switch ==
    /\ other # NoConn
    /\ other' = ConnState
    /\ input' = other.input
    /\ rpos' = other.rpos
    /\ handle' = other.handle
    /\ op' = other.op
    /\ pc' = other.pc
    /\ methods' = other.methods
    /\ command' = other.command
    /\ written' = other.written
    /\ executed' = other.executed
    /\ output' = other.output
    /\ result' = other.result
    /\ shut' = other.shut
    /\ payloadIO' = other.payloadIO
    /\ UNCHANGED <<auth, codecIn, codecOut, buf_size, socket, udpResult, peer, reads>>

----------------------------------------------------------------------------

Next ==
    \/ AuthenticateRead
    \/ AuthenticateSelect
    \/ ExecuteNoAuth
    \/ ExecutePassword
    \/ AuthenticateReturn
    \/ WaitRequest
    \/ ConnectReply
    \/ AssociateReply
    \/ BindFirstReply
    \/ BindSecondReply
    \/ HandshakeRead
    \/ HandshakeSelect
    \/ HandshakeExecuted
    \/ HandshakeRequest
    \/ ConnectResponse
    \/ BindResponse
    \/ AssociateResponse
    \/ Shutdown
    \/ CallerPayloadIO
    \/ IntoStream

Spec == Init /\ [][Next]_vars

\* what the two clients send: negotiation, then a request
ConcurrentInputs ==
    { <<5, 1, 0>> \o <<5, 1, 0, 1, 127, 0, 0, 1, 0, 80>>,
      <<5, 2, 0, 2>> \o <<1, 1, 117, 1, 112>> \o <<5, 2, 0, 1, 127, 0, 0, 1, 0, 80>>,
      <<5, 1, 0>> \o <<5, 3, 0, 1, 0, 0, 0, 0, 0, 0>> }

ConcurrentInit ==
    /\ input \in ConcurrentInputs
    /\ other \in { FreshConn(in) : in \in ConcurrentInputs }
    /\ rpos = 0
    /\ auth \in Adaptors
    /\ handle = Handle("IncomingConnection", "NeedAuthenticate", "any")
    /\ op = "none"
    /\ pc = "idle"
    /\ methods = <<>>
    /\ command = "none"
    /\ written = <<>>
    /\ executed = 0
    /\ output = [tag |-> "none"]
    /\ result = [tag |-> "none"]
    /\ shut = "no"
    /\ payloadIO = {}
    /\ codecIn = NoCodec
    /\ codecOut = NoCodec
    /\ buf_size = 0
    /\ socket = NoUdp
    /\ udpResult = NoUdp
    /\ peer = "closed"
    /\ reads = <<>>

\* the negotiation steps of the running connection, or a task switch
ConcurrentNext ==
    \/ AuthenticateRead
    \/ AuthenticateSelect
    \/ ExecuteNoAuth
    \/ ExecutePassword
    \/ AuthenticateReturn
    \/ WaitRequest
    \/ ConnectReply
    \/ AssociateReply
    \/ BindFirstReply
    \/ BindSecondReply
    \/ HandshakeRead
    \/ HandshakeSelect
    \/ HandshakeExecuted
    \/ HandshakeRequest
    \/ ConnectResponse
    \/ BindResponse
    \/ AssociateResponse
    \/ Switch

ConcurrentSpec == ConcurrentInit /\ [][ConcurrentNext]_vars

----------------------------------------------------------------------------
(* The codecs of socks5-proto used on their own                            *)

\* longest label and longest byte string enumerated byte by byte
MaxLabelLen == 2

\* bytes a label, a user name or a password is made of: ASCII, the two bytes of
\* a two-byte UTF-8 character, and bytes that occur in no UTF-8 text
LabelBytes == { 104, 195, 169, 254, 255 }

RECURSIVE SeqsUpTo(_, _)
\* the non-empty sequences over S of length at most n
SeqsUpTo(S, n) ==
    IF n = 0 THEN {}
    ELSE LET shorter == SeqsUpTo(S, n - 1)
         IN  { <<x>> : x \in S } \cup shorter \cup { Append(t, x) : t \in shorter, x \in S }

\* a byte string of the greatest length a length byte can carry
Longest == [i \in 1..U8_MAX |-> 97]

\* a name one byte longer than a length byte can tell
Overlong == [i \in 1..(U8_MAX + 1) |-> 97]

\* the labels a stream can carry: 1..255 bytes of any content
Labels == SeqsUpTo(LabelBytes, MaxLabelLen) \cup { Longest }

\* the labels an Address::DomainAddress can hold: its field is a String, whose
\* bytes are well-formed UTF-8
Names == { l \in Labels : IsUtf8(l) }

Ports == { 0, 80, 443, 65535 }

\* the addresses of the three families
Addresses ==
    { SocketAddressV4(ip, p) : ip \in { <<0, 0, 0, 0>>, <<127, 0, 0, 1>>, <<255, 255, 255, 255>> },
                               p \in Ports }
    \cup { SocketAddressV6(segs, p) :
             segs \in { <<0, 0, 0, 0, 0, 0, 0, 0>>, <<8193, 3512, 0, 0, 0, 0, 0, 1>>,
                        <<65535, 65535, 65535, 65535, 65535, 65535, 65535, 65535>> },
             p \in Ports }
    \cup { DomainAddress(l, p) : l \in Names, p \in Ports }

\* first bytes that are not the protocol version
WrongVersions == { 0, 1, 4, 6, 255 }

\* the decoders of the frames that start with the protocol version
VersionedDecoders == { "HandshakeRequest", "HandshakeResponse", "Request", "Response" }

\* the bytes ATYP | LEN | label | PORT of a domain address on the wire
DomainBytes(l, p) == <<ATYP_FQDN, Len(l)>> \o l \o <<HiByte(p), LoByte(p)>>

\* the frames that carry an address, and the bytes each starts with
AddressDecoders == { "Address", "Request", "Response", "UdpHeader" }
FramePrefix(decoder) ==
    IF decoder = "Request" THEN <<SOCKS_VERSION, CMD_CONNECT, 0>>
    ELSE IF decoder = "Response" THEN <<SOCKS_VERSION, REPLY_SUCCEEDED, 0>>
    ELSE IF decoder = "UdpHeader" THEN <<0, 0, 0>>
    ELSE <<>>

\* what a codec is handed: a value to encode and decode again, or bytes to decode
CodecInputs ==
    { [codec |-> "Address", address |-> a] : a \in Addresses }
    \cup { [codec |-> "Request", request |-> [command |-> c, address |-> a]] :
             c \in CommandKinds, a \in Addresses }
    \cup { [codec |-> "Response", response |-> [reply |-> r, address |-> a]] :
             r \in { "Succeeded", "AddressTypeNotSupported" }, a \in Addresses }
    \cup { [codec |-> "UdpHeader", header |-> [frag |-> f, address |-> a]] :
             f \in { 0, 255 }, a \in Addresses }
    \cup { [codec |-> "HandshakeRequest", methods |-> ms] :
             ms \in { <<0>>, <<0, 2>>, <<2, 1, 0>>, <<255, 255>>, Longest } }
    \cup { [codec |-> "HandshakeResponse", method |-> m] : m \in 0..U8_MAX }
    \cup { [codec |-> "PasswordRequest", login |-> [username |-> u, password |-> pw]] :
             u \in { <<117>>, <<0, 255>>, Longest }, pw \in { <<112>>, <<255, 0>>, Longest } }
    \cup { [codec |-> "PasswordResponse", status |-> st] : st \in BOOLEAN }
    \cup { [codec |-> "ReplyCode", code |-> b] : b \in 0..U8_MAX }
    \cup { [codec |-> "Reply", reply |-> r] : r \in Reply }
    \cup { [codec |-> "Bytes", decoder |-> d, bytes |-> FramePrefix(d) \o DomainBytes(l, p)] :
             d \in AddressDecoders, l \in Labels, p \in { 80, 65535 } }
    \cup { [codec |-> "Bytes", decoder |-> d, bytes |-> <<v>> \o rest] :
             d \in VersionedDecoders, v \in WrongVersions,
             rest \in { <<>>, <<1, 0>>, <<1, 0, 1, 127, 0, 0, 1, 0, 80>> } }
    \cup { [codec |-> "Bytes", decoder |-> "Request", bytes |-> <<SOCKS_VERSION, c, 0, t>> \o rest] :
             c \in { CMD_CONNECT, CMD_BIND, CMD_ASSOCIATE }, t \in { 0, 2, 5, 255 },
             rest \in { <<>>, <<127, 0, 0, 1, 0, 80>> } }
    \cup { [codec |-> "Bytes", decoder |-> "Response", bytes |-> <<SOCKS_VERSION, r, 0, t>> \o rest] :
             r \in { REPLY_SUCCEEDED, REPLY_ADDRESS_TYPE_NOT_SUPPORTED }, t \in { 0, 2, 5, 255 },
             rest \in { <<>>, <<127, 0, 0, 1, 0, 80>> } }
    \cup { [codec |-> "Bytes", decoder |-> "UdpHeader", bytes |-> <<0, 0, f, t>> \o rest] :
             f \in { 0, 7, 255 }, t \in { 0, 2, 5, 255 },
             rest \in { <<>>, <<127, 0, 0, 1, 0, 80>> } }
    \cup { [codec |-> "Bytes", decoder |-> "Request", bytes |-> <<SOCKS_VERSION, c>> \o rest] :
             c \in { 0, 4, 9, 255 }, rest \in { <<>>, <<0>>, <<0, 1, 127, 0, 0, 1, 0, 80>> } }
    \cup { [codec |-> "Bytes", decoder |-> d, bytes |-> <<SOCKS_VERSION, c, rsv>> \o a] :
             d \in { "Request", "Response" }, c \in { 1, 3 }, rsv \in 1..U8_MAX,
             a \in { <<1, 127, 0, 0, 1, 0, 80>> } }
    \cup { [codec |-> "Bytes", decoder |-> "PasswordResponse",
             bytes |-> <<SUBNEGOTIATION_VERSION, st>> \o rest] :
             st \in 0..U8_MAX, rest \in { <<>>, <<5>> } }
    \cup { [codec |-> "NewHandshakeRequest", methods |-> ms] :
             ms \in { <<>>, <<0>>, <<0, 2>>, Longest, Overlong } }
    \cup { [codec |-> "NewPasswordRequest", login |-> [username |-> u, password |-> pw]] :
             u \in { <<>>, <<117>>, Longest, Overlong }, pw \in { <<112>>, Longest, Overlong } }
    \cup { [codec |-> "From", name |-> n, port |-> p] :
             n \in Names \cup { Overlong }, p \in { 80, 65535 } }

CodecInit ==
    /\ codecIn \in CodecInputs
    /\ codecOut = NoCodec
    /\ buf_size = 0
    /\ socket = NoUdp
    /\ udpResult = NoUdp
    /\ peer = "closed"
    /\ reads = <<>>
    /\ other = NoConn
    /\ input = <<>>
    /\ rpos = 0
    /\ auth = NoAuth
    /\ handle = Handle("IncomingConnection", "NeedAuthenticate", "any")
    /\ op = "none"
    /\ pc = "idle"
    /\ methods = <<>>
    /\ command = "none"
    /\ written = <<>>
    /\ executed = 0
    /\ output = [tag |-> "none"]
    /\ result = [tag |-> "none"]
    /\ shut = "no"
    /\ payloadIO = {}

\* the connection takes no part in a codec call
connection == <<input, rpos, auth, handle, op, pc, methods, command, written, executed,
                output, result, shut, payloadIO, other, buf_size, socket, udpResult,
                peer, reads>>

\* write_to_buf into an empty buffer, serialized_len, and read_from on the
\* bytes written
RoundTrip(bytes, len, back) ==
    /\ codecOut = NoCodec
    /\ codecOut' = [bytes |-> bytes, len |-> len, back |-> back]
    /\ UNCHANGED <<codecIn, connection>>

AddressCodec ==
    /\ codecIn.codec = "Address"
    /\ RoundTrip(AddressWriteToBuf(codecIn.address), AddressSerializedLen(codecIn.address),
                 AddressReadFrom(AddressWriteToBuf(codecIn.address), 0))

RequestCodec ==
    /\ codecIn.codec = "Request"
    /\ RoundTrip(RequestWriteToBuf(codecIn.request), RequestSerializedLen(codecIn.request),
                 RequestReadFrom(RequestWriteToBuf(codecIn.request), 0))

ResponseCodec ==
    /\ codecIn.codec = "Response"
    /\ RoundTrip(ResponseWriteToBuf(codecIn.response.reply, codecIn.response.address),
                 ResponseSerializedLen(codecIn.response),
                 ResponseReadFrom(ResponseWriteToBuf(codecIn.response.reply, codecIn.response.address), 0))

UdpHeaderCodec ==
    /\ codecIn.codec = "UdpHeader"
    /\ RoundTrip(UdpHeaderWriteToBuf(codecIn.header), UdpHeaderSerializedLen(codecIn.header),
                 UdpHeaderReadFrom(UdpHeaderWriteToBuf(codecIn.header), 0))

HandshakeRequestCodec ==
    /\ codecIn.codec = "HandshakeRequest"
    /\ RoundTrip(HandshakeRequestWriteToBuf(codecIn.methods),
                 HandshakeRequestSerializedLen(codecIn.methods),
                 HandshakeRequestReadFrom(HandshakeRequestWriteToBuf(codecIn.methods), 0))

HandshakeResponseCodec ==
    /\ codecIn.codec = "HandshakeResponse"
    /\ RoundTrip(HandshakeResponseWriteToBuf(codecIn.method),
                 HandshakeResponseSerializedLen(codecIn.method),
                 HandshakeResponseReadFrom(HandshakeResponseWriteToBuf(codecIn.method), 0))

PasswordRequestCodec ==
    /\ codecIn.codec = "PasswordRequest"
    /\ RoundTrip(PasswordRequestWriteToBuf(codecIn.login),
                 PasswordRequestSerializedLen(codecIn.login),
                 PasswordRequestReadFrom(PasswordRequestWriteToBuf(codecIn.login), 0))

PasswordResponseCodec ==
    /\ codecIn.codec = "PasswordResponse"
    /\ RoundTrip(PasswordResponseWriteToBuf(codecIn.status),
                 PasswordResponseSerializedLen(codecIn.status),
                 PasswordResponseReadFrom(PasswordResponseWriteToBuf(codecIn.status), 0))

\* Reply::try_from(b), and u8::from of the Reply it gives
ReplyFromCode ==
    /\ codecIn.codec = "ReplyCode"
    /\ codecOut = NoCodec
    /\ LET t == ReplyTryFrom(codecIn.code) IN
       codecOut' = IF t.ok THEN [tried |-> t, code |-> ReplyToU8(t.val)] ELSE [tried |-> t]
    /\ UNCHANGED <<codecIn, connection>>

\* u8::from(r), and Reply::try_from of the byte it gives
ReplyToCode ==
    /\ codecIn.codec = "Reply"
    /\ codecOut = NoCodec
    /\ codecOut' = [code |-> ReplyToU8(codecIn.reply),
                    tried |-> ReplyTryFrom(ReplyToU8(codecIn.reply))]
    /\ UNCHANGED <<codecIn, connection>>

\* read_from of the named frame on a stream holding the bytes
ReadFrom(decoder, buf) ==
    IF decoder = "Address" THEN AddressReadFrom(buf, 0)
    ELSE IF decoder = "HandshakeRequest" THEN HandshakeRequestReadFrom(buf, 0)
    ELSE IF decoder = "HandshakeResponse" THEN HandshakeResponseReadFrom(buf, 0)
    ELSE IF decoder = "Request" THEN RequestReadFrom(buf, 0)
    ELSE IF decoder = "Response" THEN ResponseReadFrom(buf, 0)
    ELSE IF decoder = "PasswordResponse" THEN PasswordResponseReadFrom(buf, 0)
    ELSE UdpHeaderReadFrom(buf, 0)

Decode ==
    /\ codecIn.codec = "Bytes"
    /\ codecOut = NoCodec
    /\ codecOut' = [back |-> ReadFrom(codecIn.decoder, codecIn.bytes)]
    /\ UNCHANGED <<codecIn, connection>>

\* Address::from((String, u16)) and Address::from((&str, u16)), then
\* write_to_buf of the address made
AddressFrom ==
    /\ codecIn.codec = "From"
    /\ codecOut = NoCodec
    /\ codecOut' = [address |-> DomainAddress(codecIn.name, codecIn.port),
                    bytes |-> AddressWriteToBuf(DomainAddress(codecIn.name, codecIn.port))]
    /\ UNCHANGED <<codecIn, connection>>

\* handshake::Request::new / password::Request::new on any vectors, then
\* write_to_buf of the request made
NewThenWrite ==
    /\ codecIn.codec \in { "NewHandshakeRequest", "NewPasswordRequest" }
    /\ codecOut = NoCodec
    /\ codecOut' = [bytes |-> IF codecIn.codec = "NewHandshakeRequest"
                              THEN HandshakeRequestWriteToBuf(codecIn.methods)
                              ELSE PasswordRequestWriteToBuf(codecIn.login)]
    /\ UNCHANGED <<codecIn, connection>>

CodecNext ==
    \/ AddressCodec
    \/ RequestCodec
    \/ ResponseCodec
    \/ UdpHeaderCodec
    \/ HandshakeRequestCodec
    \/ HandshakeResponseCodec
    \/ PasswordRequestCodec
    \/ PasswordResponseCodec
    \/ ReplyFromCode
    \/ ReplyToCode
    \/ Decode
    \/ AddressFrom
    \/ NewThenWrite

CodecSpec == CodecInit /\ [][CodecNext]_vars

----------------------------------------------------------------------------
(* connection/associate.rs: AssociatedUdpSocket                            *)

\* the receive buffer sizes the host sets: too small for a header, just a
\* header, and the greatest size of a datagram
BufSizes == { 4, 10, 65535 }

\* the peers of the UdpSocket
UdpPeers == { SocketAddressV4(<<127, 0, 0, 1>>, 40000), SocketAddressV4(<<10, 0, 0, 2>>, 5353) }

\* the payloads relayed
UdpPayloads == { <<>>, <<65, 66, 67>> }

\* the headers the host sends with
UdpHeaders ==
    { [frag |-> f, address |-> a] :
        f \in { 0, 7 },
        a \in { SocketAddressV4(<<8, 8, 8, 8>>, 53),
                SocketAddressV6(<<8193, 3512, 0, 0, 0, 0, 0, 1>>, 443),
                DomainAddress(<<104, 105>>, 443) } }

\* the datagrams the network delivers: a header of each address family before
\* each payload, with every FRAG byte, and datagrams that hold no header
UdpDatagrams ==
    { <<0, 0, f>> \o AddressWriteToBuf(SocketAddressV4(<<8, 8, 8, 8>>, 53)) \o pl :
        f \in 0..U8_MAX, pl \in UdpPayloads }
    \cup { <<0, 0, f>> \o a \o pl :
             f \in { 0, 1 },
             a \in { AddressWriteToBuf(SocketAddressV6(<<8193, 3512, 0, 0, 0, 0, 0, 1>>, 443)),
                     DomainBytes(<<104, 105>>, 443),
                     DomainBytes(<<255, 254>>, 80) },
             pl \in UdpPayloads }
    \cup { <<0, 0, 0, 2, 8, 8, 8, 8, 0, 53, 65, 66, 67>>,
           <<0, 0, 1, 0, 8, 8, 8, 8, 0, 53>>,
           <<0, 0, 0, 1, 127, 0>>,
           <<0, 0, 0, 3, 5, 104, 105>>,
           <<0, 0>>,
           <<>> }

\* what the UdpSocket is about to do: deliver a datagram from a peer, fail to
\* receive, accept a datagram, or fail to send
SocketStates ==
    { [state |-> "readable", datagram |-> d, addr |-> a] : d \in UdpDatagrams, a \in UdpPeers }
    \cup { [state |-> "recv_error"], [state |-> "writable"], [state |-> "send_error"] }
    \cup { [state |-> "counted", count |-> n] : n \in 0..32 }

\* From<(UdpSocket, usize)> for AssociatedUdpSocket
UdpInit ==
    /\ buf_size \in BufSizes
    /\ socket \in SocketStates
    /\ udpResult = NoUdp
    /\ peer = "closed"
    /\ reads = <<>>
    /\ codecIn = NoCodec
    /\ codecOut = NoCodec
    /\ other = NoConn
    /\ input = <<>>
    /\ rpos = 0
    /\ auth = NoAuth
    /\ handle = Handle("IncomingConnection", "NeedAuthenticate", "any")
    /\ op = "none"
    /\ pc = "idle"
    /\ methods = <<>>
    /\ command = "none"
    /\ written = <<>>
    /\ executed = 0
    /\ output = [tag |-> "none"]
    /\ result = [tag |-> "none"]
    /\ shut = "no"
    /\ payloadIO = {}

\* the AssociatedUdpSocket takes no part in a connection or a codec call
notUdp == <<input, rpos, auth, handle, op, pc, methods, command, written, executed,
            output, result, shut, payloadIO, other, codecIn, codecOut, peer, reads>>

\* no call on the AssociatedUdpSocket has returned yet
NotCalled == socket # NoUdp /\ udpResult = NoUdp

\* AssociatedUdpSocket::get_max_pkt_size
GetMaxPktSize ==
    /\ NotCalled
    /\ udpResult' = [op |-> "get_max_pkt_size", val |-> buf_size]
    /\ UNCHANGED <<buf_size, socket, notUdp>>

\* AssociatedUdpSocket::set_max_pkt_size
SetMaxPktSize ==
    /\ NotCalled
    /\ \E size \in BufSizes : buf_size' = size
    /\ UNCHANGED <<socket, udpResult, notUdp>>

\* UdpSocket::recv / recv_from into a buffer of n bytes: the bytes of the
\* datagram that fit
IntoBuffer(datagram, n) == SubSeq(datagram, 1, IF Len(datagram) < n THEN Len(datagram) ELSE n)

\* the body of recv and recv_from once the socket has filled buf
Received(buf) ==
    LET header == UdpHeaderReadFrom(buf, 0) IN
    IF ~header.ok
    THEN [ok |-> FALSE, err |-> header.err, raw |-> [some |-> TRUE, bytes |-> buf]]
    ELSE [ok |-> TRUE,
          pkt |-> SubSeq(buf, UdpHeaderSerializedLen(header.val) + 1, Len(buf)),
          header |-> header.val]

\* the socket's receive failed
RecvFailed == [ok |-> FALSE, err |-> IoError("RecvFailed"), raw |-> [some |-> FALSE]]

\* AssociatedUdpSocket::recv, up to the await of the socket: the size is
\* loaded and a buffer of that size is made
Recv ==
    /\ NotCalled
    /\ socket.state \in { "readable", "recv_error" }
    /\ socket' = [state |-> "pending", op |-> "recv", size |-> buf_size, will |-> socket]
    /\ UNCHANGED <<buf_size, udpResult, notUdp>>

\* AssociatedUdpSocket::recv_from, up to the await of the socket
RecvFrom ==
    /\ NotCalled
    /\ socket.state \in { "readable", "recv_error" }
    /\ socket' = [state |-> "pending", op |-> "recv_from", size |-> buf_size, will |-> socket]
    /\ UNCHANGED <<buf_size, udpResult, notUdp>>

\* faulty variant: the size is loaded when the socket has the datagram
RecvBufferSize_LoadedLate == buf_size

\* the size of the buffer the pending receive made
RecvBufferSize == socket.size

\* recv and recv_from from the socket's answer to their return
RecvReturn ==
    /\ socket # NoUdp
    /\ socket.state = "pending"
    /\ IF socket.will.state = "recv_error"
       THEN /\ socket' = [state |-> "failed"]
            /\ udpResult' = [op |-> socket.op, ret |-> RecvFailed]
       ELSE LET buf == IntoBuffer(socket.will.datagram, RecvBufferSize) IN
            /\ socket' = [state |-> "received", datagram |-> socket.will.datagram,
                          buf |-> buf, size |-> socket.size]
            /\ udpResult' = IF socket.op = "recv"
                            THEN [op |-> "recv", ret |-> Received(buf)]
                            ELSE [op |-> "recv_from", ret |-> Received(buf),
                                  addr |-> socket.will.addr]
    /\ UNCHANGED <<buf_size, notUdp>>

\* the body of send and send_to: the buffer handed to the socket, and the
\* value made of what the socket returns (Ok(len) of the whole datagram, or
\* an error)
SendBuf(pkt, header) == UdpHeaderWriteToBuf(header) \o pkt
\* faulty variant: the transport's count is returned as it is
Sent_WholeDatagram(pkt, header, sent) ==
    IF sent
    THEN [ok |-> TRUE, val |-> Len(SendBuf(pkt, header))]
    ELSE [ok |-> FALSE, err |-> IoError("SendFailed")]

Sent(pkt, header, sent) ==
    IF sent
    THEN [ok |-> TRUE, val |-> Len(SendBuf(pkt, header)) - UdpHeaderSerializedLen(header)]
    ELSE [ok |-> FALSE, err |-> IoError("SendFailed")]

\* AssociatedUdpSocket::send
Send ==
    /\ NotCalled
    /\ socket.state \in { "writable", "send_error" }
    /\ \E pkt \in UdpPayloads, header \in UdpHeaders :
         /\ socket' = [state |-> IF socket.state = "writable" THEN "sent" ELSE "failed",
                       buf |-> SendBuf(pkt, header), count |-> Len(SendBuf(pkt, header))]
         /\ udpResult' = [op |-> "send", pkt |-> pkt, header |-> header,
                          ret |-> Sent(pkt, header, socket.state = "writable")]
    /\ UNCHANGED <<buf_size, notUdp>>

\* AssociatedUdpSocket::send_to
SendTo ==
    /\ NotCalled
    /\ socket.state \in { "writable", "send_error" }
    /\ \E pkt \in UdpPayloads, header \in UdpHeaders, addr \in UdpPeers :
         /\ socket' = [state |-> IF socket.state = "writable" THEN "sent" ELSE "failed",
                       buf |-> SendBuf(pkt, header), count |-> Len(SendBuf(pkt, header)),
                       addr |-> addr]
         /\ udpResult' = [op |-> "send_to", pkt |-> pkt, header |-> header, addr |-> addr,
                          ret |-> Sent(pkt, header, socket.state = "writable")]
    /\ UNCHANGED <<buf_size, notUdp>>

\* `|len| len - header.serialized_len()`, the closure send and send_to map
\* over the socket's Ok(len), on any len: a usize subtraction, which below
\* zero panics in a build with overflow checks and wraps around without them
\* (val is then the result less 2^64)
SubHeaderLen(len, header) ==
    IF len >= UdpHeaderSerializedLen(header)
    THEN { [ok |-> TRUE, val |-> len - UdpHeaderSerializedLen(header)] }
    ELSE { [ok |-> FALSE, panicked |-> TRUE],
           [ok |-> TRUE, val |-> len - UdpHeaderSerializedLen(header), wrapped |-> TRUE] }

\* the closure of send / send_to applied to a count the socket returned
SendResult ==
    /\ NotCalled
    /\ socket.state = "counted"
    /\ \E header \in UdpHeaders :
         \E ret \in SubHeaderLen(socket.count, header) :
            udpResult' = [op |-> "map", count |-> socket.count, header |-> header, ret |-> ret]
    /\ UNCHANGED <<buf_size, socket, notUdp>>

UdpNext ==
    \/ GetMaxPktSize
    \/ SetMaxPktSize
    \/ Recv
    \/ RecvFrom
    \/ RecvReturn
    \/ Send
    \/ SendTo
    \/ SendResult

UdpSpec == UdpInit /\ [][UdpNext]_vars

----------------------------------------------------------------------------
(* Properties                                                              *)

ChosenMethod == AsHandshakeMethod(auth)

\* the method response naming method m, as authenticate hands it to write_all
MethodResponseOf(m) ==
    [frame |-> "MethodResponse", bytes |-> <<5, m>>, by |-> "authenticate"]

\* authenticate has returned (its result is the last one the caller got)
Returned(o) == result.tag # "none" /\ result.op = o

\* C1: on the success path of IncomingConnection::authenticate (the chosen
\* method was offered) the 2-byte method response (0x05, chosen) is on the wire
\* before Auth::execute is invoked, execute runs once, and the Authenticated
\* handle is returned paired with execute's output; with the chosen method
\* offered, only a failed write of the method response keeps execute from
\* running.
C1_WriteThenExecuteThenReturn ==
    /\ (op = "authenticate" /\ pc = "execute") =>
          /\ Contains(methods, ChosenMethod)
          /\ written = << MethodResponseOf(ChosenMethod) >>
          /\ executed = 0
    /\ (handle.api = "mod" /\ executed > 0) =>
          /\ executed = 1
          /\ Len(written) >= 1
          /\ written[1] = MethodResponseOf(ChosenMethod)
    /\ (Returned("authenticate") /\ result.tag = "Ok") =>
          /\ handle.kind \in {"Authenticated", "TcpStream"}
          /\ Contains(methods, ChosenMethod)
          /\ executed = 1
          /\ result.val = output
          /\ output.tag # "none"
    /\ (Returned("authenticate") /\ handle.api = "mod"
        /\ Contains(methods, ChosenMethod) /\ result.tag = "Err") =>
          /\ result.err = IoError("WriteFailed")
          /\ written = <<>>
          /\ executed = 0

\* the Password adaptor ran its sub-negotiation and authenticate returned the handle
C1_Witness ==
    /\ Returned("authenticate")
    /\ result.tag = "Ok"
    /\ handle.kind = "Authenticated"
    /\ auth.adaptor = "Password"
    /\ output = [tag |-> "Ok", val |-> TRUE]
    /\ Len(written) = 2

\* the methods the client offered, in the order of the bytes it sent
OfferedOnWire == SubSeq(input, 3, 2 + input[2])

\* C2: on the rejection path of IncomingConnection::authenticate (the chosen
\* method was not offered) the only thing written is the method response
\* (0x05, 0xFF), execute is never invoked, no next-stage handle is returned, and
\* the caller gets the stream back with NoAcceptableHandshakeMethod carrying
\* version 5, the chosen method and the offered methods in the client's order
\* (unless writing the method response itself fails: C5).
C2_RejectionPath ==
    (Returned("authenticate") /\ handle.api = "mod" /\ ~Contains(methods, ChosenMethod)) =>
        /\ result.tag = "Err"
        /\ result.stream
        /\ handle = Handle("TcpStream", "Raw", "mod")
        /\ executed = 0
        /\ output.tag = "none"
        /\ \/ /\ written = << MethodResponseOf(255) >>
              /\ result.err = [type |-> "Protocol",
                               variant |-> "NoAcceptableHandshakeMethod",
                               version |-> 5,
                               chosen_method |-> ChosenMethod,
                               methods |-> OfferedOnWire]
           \/ /\ written = <<>>
              /\ result.err = IoError("WriteFailed")

\* offered [0x01, 0x02] with NoAuth: 05 FF written, chosen_method 0x00, methods [0x01, 0x02]
C2_Witness ==
    /\ Returned("authenticate")
    /\ result.tag = "Err"
    /\ Len(input) >= 4
    /\ SubSeq(input, 1, 4) = <<5, 2, 1, 2>>
    /\ auth = NoAuth
    /\ written = << MethodResponseOf(255) >>
    /\ result.err.type = "Protocol"
    /\ result.err.variant = "NoAcceptableHandshakeMethod"
    /\ result.err.chosen_method = 0
    /\ result.err.methods = <<1, 2>>

\* the driver goes on to the command stage: authenticate returns the
\* Authenticated handle, handshake goes on to read the request
AdvancesToCommand ==
    \/ handle'.kind = "Authenticated" /\ result'.tag = "Ok"
    \/ pc' = "request"

\* C3: the driver does not interpret the auth output: once Auth::execute has
\* returned (the chosen method was offered and the method response written),
\* the connection advances to the command stage for every value of the output,
\* Ok(true), Ok(false) and Err(_) alike.
C3_OutputNotInterpreted == [][pc = "executed" => AdvancesToCommand]_vars

\* a method response naming 0xFF is on the wire
WroteUnacceptable ==
    \E i \in 1..Len(written) :
        written[i].frame = "MethodResponse" /\ written[i].bytes[2] = METHOD_UNACCEPTABLE

\* the first frame on the wire is the method response naming the chosen method
WroteAccepted ==
    /\ Len(written) >= 1
    /\ written[1].frame = "MethodResponse"
    /\ written[1].bytes = <<5, ChosenMethod>>
    /\ ChosenMethod # METHOD_UNACCEPTABLE

\* the driver is about to read a Request frame, or has read one
RequestRead == pc = "request" \/ Returned("wait_request") \/ command # "none"

\* C4: stage order: a Request frame is read only after a method response
\* naming an accepted method was written on the connection; once the driver
\* has written the 0xFF method response it reads no Request and yields no
\* command handle.
C4_StageOrder ==
    /\ RequestRead => WroteAccepted
    /\ WroteUnacceptable => (~RequestRead /\ handle.kind \notin CommandKinds)

\* C5: every failure inside authenticate and wait_request (read error or EOF,
\* version mismatch, invalid command, invalid address type, failed write of the
\* method response) is returned paired with the stream: no next-stage handle
\* exists, and the driver has neither shut the stream down nor dropped it.
C5_ErrorSurrender ==
    (result.tag = "Err" /\ result.op \in {"authenticate", "wait_request"}) =>
        /\ result.stream
        /\ handle.kind = "TcpStream"
        /\ shut # "driver"
        /\ command = "none"

\* wait_request met an invalid command and handed the stream back
C5_Witness ==
    /\ Returned("wait_request")
    /\ result.tag = "Err"
    /\ result.err.type = "Protocol"
    /\ result.err.variant = "InvalidCommand"
    /\ handle.kind = "TcpStream"

ReplyOps ==
    { "Connect::reply", "Associate::reply",
      "Bind<NeedFirstReply>::reply", "Bind<NeedSecondReply>::reply" }

\* C6: when the write of the Response frame fails in a reply operation (Connect,
\* Associate, Bind first and second reply), no next handle is produced and the
\* stream is returned to the caller together with the error.
C6_ReplyErrorSurrender ==
    (result.tag = "Err" /\ result.op \in ReplyOps) =>
        /\ result.err = IoError("WriteFailed")
        /\ result.stream
        /\ handle.kind = "TcpStream"

\* the Response frames the driver wrote on the stream
Responses == SelectSeq(written, LAMBDA w : w.frame = "Response")

\* C7: a Bind handle is Ready only if exactly two Response frames were written
\* on its stream, the first by the NeedFirstReply stage and the second by the
\* NeedSecondReply stage.
C7_BindTwoReplies ==
    (handle.kind = "Bind" /\ handle.stage = "Ready") =>
        /\ Len(Responses) = 2
        /\ Responses[1].by = "Bind<NeedFirstReply>::reply"
        /\ Responses[2].by = "Bind<NeedSecondReply>::reply"

\* C8: for a Connect or Associate command the driver writes at most one
\* Response frame: none while the handle waits for its reply, exactly one,
\* written by the reply operation, once the handle is Ready, and no more after.
C8_SingleReply ==
    command \in {"Connect", "Associate"} =>
        /\ Len(Responses) <= 1
        /\ (handle.kind \in CommandKinds /\ handle.stage # "Ready") => Len(Responses) = 0
        /\ (handle.kind \in CommandKinds /\ handle.stage = "Ready") =>
              /\ Len(Responses) = 1
              /\ Responses[1].by \in {"Connect::reply", "Associate::reply", "response"}
              /\ result.tag = "Ok"

\* a Connect handle got its one reply and is Ready
C8_Witness ==
    /\ handle = Handle("Connect", "Ready", "mod")
    /\ command = "Connect"
    /\ Len(Responses) = 1
    /\ Returned("Connect::reply")

WellFormedRequest(buf, pos) ==
    /\ Len(buf) >= pos + 4
    /\ buf[pos + 1] = 5
    /\ buf[pos + 2] \in {1, 2, 3}
    /\ \/ buf[pos + 4] = 1 /\ Len(buf) >= pos + 10
       \/ buf[pos + 4] = 4 /\ Len(buf) >= pos + 22
       \/ /\ buf[pos + 4] = 3
          /\ Len(buf) >= pos + 5
          /\ buf[pos + 5] >= 1
          /\ Len(buf) >= pos + 7 + buf[pos + 5]

\* the number of bytes of that frame
RequestFrameLen(buf, pos) ==
    IF buf[pos + 4] = 1 THEN 10
    ELSE IF buf[pos + 4] = 4 THEN 22
    ELSE 7 + buf[pos + 5]

\* the handle wait_request is to return for a CMD byte
HandleForCmd(b) ==
    IF b = 1 THEN Handle("Connect", "NeedReply", "mod")
    ELSE IF b = 2 THEN Handle("Bind", "NeedFirstReply", "mod")
    ELSE Handle("Associate", "NeedReply", "mod")

\* wait_request is the step taken
WaitRequestStep ==
    /\ Idle
    /\ handle.kind = "Authenticated"
    /\ result'.tag # "none"
    /\ result'.op = "wait_request"

\* what C10 says of a wait_request that returned a handle
DispatchedAsSent ==
    /\ result'.tag = "Ok"
    /\ handle' = HandleForCmd(input[rpos + 2])
    /\ AddressWriteToBuf(result'.val.address)
         = SubSeq(input, rpos + 4, rpos + RequestFrameLen(input, rpos))
    /\ rpos' = rpos + RequestFrameLen(input, rpos)
    /\ written' = written

\* C10: for every well-formed Request frame wait_request returns the handle
\* matching the CMD byte (0x01 Connect<NeedReply>, 0x02 Bind<NeedFirstReply>,
\* 0x03 Associate<NeedReply>) paired with the address of that frame, and
\* writes nothing.
C10_Dispatch ==
    [][(WaitRequestStep /\ WellFormedRequest(input, rpos)) => DispatchedAsSent]_vars

\* how far along the lifecycle a holder of the stream is
StageRank(h) ==
    IF h.kind = "IncomingConnection" THEN 0
    ELSE IF h.kind = "Authenticated" THEN 1
    ELSE IF h.kind \in CommandKinds /\ h.stage \in {"NeedReply", "NeedFirstReply", "NeedResponse"}
         THEN 2
    ELSE IF h.kind \in CommandKinds /\ h.stage = "NeedSecondReply" THEN 3
    ELSE IF h.kind \in CommandKinds /\ h.stage = "Ready" THEN 4
    ELSE IF h.kind = "TcpStream" THEN 5
    ELSE 6

\* a driver operation returns in this step
OperationReturns == result' # result

\* C11: the stream has one holder at a time and a transition consumes the old
\* handle: the holder never goes back to an earlier stage, every driver
\* operation that returns (a stage transition or an error) leaves a holder of
\* a later stage than the handle it was applied to, every conversion to the
\* raw stream ends the handle, and once the caller holds the raw stream (or
\* the stream is gone) no driver operation runs on it again.
C11_ExclusiveOwnership ==
    [][ /\ StageRank(handle') >= StageRank(handle)
        /\ OperationReturns => StageRank(handle') > StageRank(handle)
        /\ (handle.kind \notin {"TcpStream", "Dropped"} /\ handle'.kind = "TcpStream")
              => (OperationReturns => result'.tag = "Err")
        /\ handle.kind \in {"TcpStream", "Dropped"}
              => (handle' = handle /\ op' = "none" /\ result' = result) ]_vars

\* a command handle was converted to the raw stream by its holder
C11_Witness ==
    /\ handle.kind = "TcpStream"
    /\ result.tag = "Ok"
    /\ result.op = "wait_request"
    /\ command = "Bind"

\* the Request frame is read in this step: by wait_request, or by the
\* command-reading part of handshake
RequestReadStep ==
    \/ /\ Idle
       /\ handle.kind = "Authenticated"
       /\ OperationReturns
       /\ result'.op = "wait_request"
    \/ /\ op = "handshake"
       /\ pc = "request"

\* C12: when reading or parsing the Request frame fails, the driver writes no
\* Response frame and no other byte on the stream and does not close it: the
\* stream, as it was, is in the caller's hands with the error.
C12_NoImplicitReplyOrClose ==
    [][(RequestReadStep /\ ~RequestReadFrom(input, rpos).ok) =>
          /\ written' = written
          /\ shut' = shut
          /\ handle'.kind = "TcpStream"
          /\ result'.tag = "Err"
          /\ result'.err = RequestReadFrom(input, rpos).err]_vars

\* the whole Response frames a reply operation can have written
WholeResponses(reply) == { ResponseWriteToBuf(reply, a) : a \in ReplyAddrs }

\* the last Response frame on the wire is the whole frame of operation o,
\* carrying the reply it returned
LastResponseIsOf(o) ==
    /\ Responses # <<>>
    /\ Responses[Len(Responses)].by = o
    /\ Responses[Len(Responses)].bytes \in WholeResponses(result.val)

\* C13: the next-stage handle is returned only after the whole frame of the
\* transition was written: an Authenticated handle returned by authenticate
\* finds the method response 05|chosen on the wire, and a handle returned by a
\* reply operation finds that operation's whole Response frame there.
C13_WriteBeforeNextStage ==
    /\ (result.tag = "Ok" /\ result.op = "authenticate") =>
          (written # <<>> /\ written[1] = MethodResponseOf(ChosenMethod))
    /\ \A o \in ReplyOps : (result.tag = "Ok" /\ result.op = o) => LastResponseIsOf(o)
    /\ handle = Handle("Authenticated", "NeedCommand", "mod") =>
          (written # <<>> /\ written[1] = MethodResponseOf(ChosenMethod))
    /\ handle = Handle("Bind", "NeedSecondReply", "mod") =>
          (Len(Responses) = 1 /\ LastResponseIsOf("Bind<NeedFirstReply>::reply"))
    /\ (handle.api = "mod" /\ handle.kind \in CommandKinds /\ handle.stage = "Ready") =>
          (result.tag = "Ok" /\ result.op \in ReplyOps /\ LastResponseIsOf(result.op))

\* the first Bind reply is on the wire and the NeedSecondReply handle returned
C13_Witness ==
    /\ handle = Handle("Bind", "NeedSecondReply", "mod")
    /\ Returned("Bind<NeedFirstReply>::reply")
    /\ result.tag = "Ok"
    /\ Len(Responses) = 1

\* the bytes of the frames on the wire of a connection
WireOf(frames) == [i \in 1..Len(frames) |-> frames[i].bytes]

\* what authenticate does on a connection that runs alone, its writes
\* succeeding: the bytes written, the bytes consumed, the value returned
AloneAuthenticate(in, a) ==
    LET r == HandshakeRequestReadFrom(in, 0)
        m == AsHandshakeMethod(a)
        err(e) == [tag |-> "Err", op |-> "authenticate", err |-> e, stream |-> TRUE]
        ok(out) == [tag |-> "Ok", op |-> "authenticate", val |-> out]
    IN  IF ~r.ok
        THEN [written |-> <<>>, rpos |-> r.pos, result |-> err(r.err)]
        ELSE IF ~Contains(r.val, m)
        THEN [written |-> << <<SOCKS_VERSION, METHOD_UNACCEPTABLE>> >>, rpos |-> r.pos,
              result |-> err(NoAcceptableHandshakeMethod(m, r.val))]
        ELSE IF a.adaptor = "NoAuth"
        THEN [written |-> << <<SOCKS_VERSION, m>> >>, rpos |-> r.pos,
              result |-> ok([tag |-> "Ok", val |-> TRUE])]
        ELSE LET p == PasswordRequestReadFrom(in, r.pos) IN
             IF ~p.ok
             THEN [written |-> << <<SOCKS_VERSION, m>> >>, rpos |-> p.pos,
                   result |-> ok([tag |-> "Err", err |-> p.err])]
             ELSE LET status == p.val.username = a.username /\ p.val.password = a.password
                  IN  [written |-> << <<SOCKS_VERSION, m>>, PasswordResponseWriteToBuf(status) >>,
                       rpos |-> p.pos,
                       result |-> ok([tag |-> "Ok", val |-> status])]

\* the same for wait_request called on the handle authenticate returned
AloneWaitRequest(in, a) ==
    LET au == AloneAuthenticate(in, a)
        r == RequestReadFrom(in, au.rpos)
    IN  [written |-> au.written, rpos |-> r.pos,
         result |-> IF r.ok
                    THEN [tag |-> "Ok", op |-> "wait_request", val |-> r.val]
                    ELSE [tag |-> "Err", op |-> "wait_request", err |-> r.err,
                          stream |-> TRUE]]

\* no write_all failed on connection c
NoWriteFailed(c) ==
    /\ c.result.tag = "Err" => c.result.err # IoError("WriteFailed")
    /\ c.output.tag = "Err" => c.output.err # IoError("WriteFailed")

\* what connection c has observably done
Observed(c) == [written |-> WireOf(c.written), rpos |-> c.rpos, result |-> c.result]

\* connection c is where it would be had it run alone on the same input
AsAlone(c) ==
    /\ (c.result.tag # "none" /\ c.result.op = "authenticate" /\ NoWriteFailed(c)) =>
          Observed(c) = AloneAuthenticate(c.input, auth)
    /\ (c.result.tag # "none" /\ c.result.op = "wait_request" /\ NoWriteFailed(c)) =>
          /\ Observed(c) = AloneWaitRequest(c.input, auth)
          /\ c.result.tag = "Ok" => c.handle = Dispatch(c.result.val.command)

\* C14: two connections of one Server, interleaved at every await, share only
\* the adaptor: whenever authenticate or wait_request has returned on either
\* of them (no write having failed), the bytes written on its stream, the
\* bytes consumed from it and the value or error returned are those of the
\* same connection running alone on the same input; the steps of the running
\* connection leave the other connection's stream and state as they are, and
\* nothing changes the adaptor.
C14_Independence ==
    /\ [](AsAlone(ConnState) /\ AsAlone(other))
    /\ [][ /\ auth' = auth
           /\ other' # other => (other' = ConnState /\ ConnState' = other) ]_vars

\* both connections went through authenticate and wait_request, interleaved,
\* and ended at different commands
C14_Witness ==
    /\ other # NoConn
    /\ command = "Connect"
    /\ other.command = "Associate"
    /\ handle = Handle("Connect", "NeedReply", "mod")
    /\ other.handle = Handle("Associate", "NeedReply", "mod")

----------------------------------------------------------------------------
(* The codecs                                                              *)

\* a codec call has been made on a value of the named kind
Encoded(codec) == codecIn.codec = codec /\ codecOut # NoCodec

\* read_from has been called on the bytes of a frame of the named kind that
\* carries a domain address
DecodedDomain(decoder) ==
    /\ codecIn.codec = "Bytes"
    /\ codecOut # NoCodec
    /\ codecIn.decoder = decoder
    /\ decoder \in AddressDecoders
    /\ Len(codecIn.bytes) >= Len(FramePrefix(decoder))
    /\ SubSeq(codecIn.bytes, 1, Len(FramePrefix(decoder))) = FramePrefix(decoder)
    /\ Len(codecIn.bytes) > Len(FramePrefix(decoder))
    /\ codecIn.bytes[Len(FramePrefix(decoder)) + 1] = ATYP_FQDN

\* the decoder gave back the value v
GaveBack(v) == codecOut.back.ok /\ codecOut.back.val = v

\* C15: Address round trip. Decoding the bytes write_to_buf produces for an
\* address gives an address equal to the original, for the three families and
\* every port; for a domain address this covers every label of 1..255 bytes,
\* whose bytes on the wire are ATYP | LEN | label | PORT.
C15_AddressRoundTrip ==
    /\ Encoded("Address") => GaveBack(codecIn.address)
    /\ DecodedDomain("Address") =>
           /\ codecOut.back.ok
           /\ codecOut.back.val.kind = "Domain"
           /\ DomainBytes(codecOut.back.val.name, codecOut.back.val.port) = codecIn.bytes

\* C16: frame round trip. Decoding the bytes the encoder of a frame produces
\* gives a frame with the same fields, for Request, Response, UdpHeader, the
\* handshake Request and Response and the password Request and Response; the
\* frames that carry a domain address do so for every label of 1..255 bytes.
C16_FrameRoundTrip ==
    /\ Encoded("Request") => GaveBack(codecIn.request)
    /\ Encoded("Response") => GaveBack(codecIn.response)
    /\ Encoded("UdpHeader") => GaveBack(codecIn.header)
    /\ Encoded("HandshakeRequest") => GaveBack(codecIn.methods)
    /\ Encoded("HandshakeResponse") => GaveBack(codecIn.method)
    /\ Encoded("PasswordRequest") => GaveBack(codecIn.login)
    /\ Encoded("PasswordResponse") => GaveBack(codecIn.status)
    /\ \A d \in AddressDecoders \ { "Address" } :
           DecodedDomain(d) =>
               /\ codecOut.back.ok
               /\ codecOut.back.val.address.kind = "Domain"
               /\ FramePrefix(d) \o DomainBytes(codecOut.back.val.address.name,
                                                codecOut.back.val.address.port)
                      = codecIn.bytes

\* the codecs that encode a value and decode it again
FrameCodecs ==
    { "Address", "Request", "Response", "UdpHeader", "HandshakeRequest",
      "HandshakeResponse", "PasswordRequest", "PasswordResponse" }

LabelReceived == SubSeq(codecIn.bytes, 3, 2 + codecIn.bytes[2])

\* C18: the address decoder never rejects a domain label for its byte content.
\* For every length L and every L label bytes, UTF-8 or not, Address::read_from
\* on 03 | L | label | port succeeds and gives a domain address whose label is
\* exactly the bytes received.
C18_LabelBytesNotInspected ==
    DecodedDomain("Address") =>
        /\ codecOut.back.ok
        /\ codecOut.back.val.kind = "Domain"
        /\ codecOut.back.val.name = LabelReceived

\* read_from of the named frame has been called on bytes whose first byte is
\* not the protocol version
DecodedWrongVersion(decoder) ==
    /\ codecIn.codec = "Bytes"
    /\ codecOut # NoCodec
    /\ codecIn.decoder = decoder
    /\ codecIn.bytes[1] # SOCKS_VERSION

\* C19: version rejection. The decoder of every frame that starts with the
\* protocol version (handshake Request, handshake Response, Request, Response)
\* returns ProtocolVersion { version: v } when the first byte v is not 0x05,
\* and has then consumed exactly one byte of the stream.
C19_VersionRejection ==
    \A d \in VersionedDecoders :
        DecodedWrongVersion(d) =>
            /\ ~codecOut.back.ok
            /\ codecOut.back.err = ProtocolVersion(codecIn.bytes[1])
            /\ codecOut.back.pos = 1

\* C20: Reply code mapping. For every byte b in 0..255, Reply::try_from(b)
\* succeeds exactly when b is in 0x00..0x08, and then u8::from of that Reply is
\* b; every other byte is a decode error; for every Reply r,
\* Reply::try_from(u8::from(r)) = r.
C20_ReplyCodeMapping ==
    /\ Encoded("ReplyCode") =>
           /\ codecOut.tried.ok <=> codecIn.code \in 0..8
           /\ codecOut.tried.ok => codecOut.tried.val \in Reply /\ codecOut.code = codecIn.code
    /\ Encoded("Reply") =>
           /\ codecOut.tried.ok
           /\ codecOut.tried.val = codecIn.reply

\* the byte 0x08 has been converted, to AddressTypeNotSupported and back
C20_Witness ==
    /\ Encoded("ReplyCode")
    /\ codecIn.code = 8
    /\ codecOut.tried.ok
    /\ codecOut.tried.val = "AddressTypeNotSupported"
    /\ codecOut.code = 8

----------------------------------------------------------------------------
(* The authentication routines, the UDP socket and the traces              *)

\* Password::execute runs in this step, on a stream that holds a complete
\* password request
PasswordExecuteStep ==
    /\ pc = "execute"
    /\ pc' = "executed"
    /\ auth.adaptor = "Password"
    /\ PasswordRequestReadFrom(input, rpos).ok

\* the request Password::execute reads in this step carries the configured
\* user name and the configured password
CredentialsMatch ==
    LET req == PasswordRequestReadFrom(input, rpos).val IN
    /\ req.username = auth.username
    /\ req.password = auth.password

\* C21: Password authentication routine. Once Password::execute has read a
\* complete password request it writes 01 00 and returns Ok(true) exactly when
\* the user name and the password received are both bytewise equal to the
\* configured ones, and writes 01 FF and returns Ok(false) otherwise; the
\* response is on the wire when execute returns. (When the write of the
\* response fails, execute returns the error and no response was written.)
C21_PasswordRoutine ==
    [][ PasswordExecuteStep =>
            LET status == CredentialsMatch
                resp == <<1, IF status THEN 0 ELSE 255>>
            IN  \/ /\ output' = [tag |-> "Ok", val |-> status]
                   /\ written' = Append(written, [frame |-> "PasswordResponse",
                                                  bytes |-> resp, by |-> "execute"])
                \/ /\ output'.tag = "Err"
                   /\ written' = written ]_vars

\* Password::execute refused a request that has the configured password under
\* another user name: 01 FF is the last frame written and the output is Ok(false)
C21_Witness ==
    /\ pc = "executed"
    /\ auth.adaptor = "Password"
    /\ output = [tag |-> "Ok", val |-> FALSE]
    /\ written # <<>>
    /\ written[Len(written)].bytes = <<1, 255>>
    /\ SubSeq(input, rpos - 4, rpos) = <<1, 1, 118, 1, 112>>

\* recv or recv_from has returned
RecvReturned == udpResult # NoUdp /\ udpResult.op \in { "recv", "recv_from" }

\* the number of bytes the UDP header at the start of buf takes according to
\* its address type and length byte (0: the type byte is not there or is none
\* of the three types)
HeaderLenOnWire(buf) ==
    IF Len(buf) < 4 THEN 0
    ELSE IF buf[4] = ATYP_IPV4 THEN 3 + 7
    ELSE IF buf[4] = ATYP_IPV6 THEN 3 + 19
    ELSE IF buf[4] = ATYP_FQDN THEN (IF Len(buf) < 5 THEN 0 ELSE 3 + 4 + buf[5])
    ELSE 0

\* the address type of the header in buf is none of 0x01, 0x03, 0x04
InvalidTypeDatagram(buf) == Len(buf) >= 4 /\ buf[4] \notin { ATYP_IPV4, ATYP_FQDN, ATYP_IPV6 }

\* buf ends before its header does
ShortDatagram(buf) ==
    ~InvalidTypeDatagram(buf) /\ (HeaderLenOnWire(buf) = 0 \/ Len(buf) < HeaderLenOnWire(buf))

\* C22: UDP receive failure modes. recv and recv_from return (Io(err), None)
\* when the socket's receive fails, and (err, Some(raw)) with raw exactly the
\* bytes received when the datagram cannot be parsed as a UDP header: an
\* invalid address type t after FRAG f gives
\* InvalidAddressTypeInUdpHeader { frag: f, address_type: t }, a datagram
\* shorter than its header gives the read error.
C22_RecvFailureModes ==
    RecvReturned =>
        /\ socket.state = "failed" =>
               /\ ~udpResult.ret.ok
               /\ udpResult.ret.err.type = "Io"
               /\ ~udpResult.ret.raw.some
        /\ (socket.state = "received" /\ ~udpResult.ret.ok) =>
               udpResult.ret.raw = [some |-> TRUE, bytes |-> socket.buf]
        /\ (socket.state = "received" /\ ShortDatagram(socket.buf)) =>
               /\ ~udpResult.ret.ok
               /\ udpResult.ret.err = IoError("UnexpectedEof")
        /\ (socket.state = "received" /\ InvalidTypeDatagram(socket.buf)) =>
               /\ ~udpResult.ret.ok
               /\ udpResult.ret.err = [type |-> "Protocol",
                                       variant |-> "InvalidAddressTypeInUdpHeader",
                                       frag |-> socket.buf[3],
                                       address_type |-> socket.buf[4]]

\* buf begins with a whole UDP header: two reserved bytes, FRAG, and an address
\* of one of the three types
WellFormedDatagram(buf) == HeaderLenOnWire(buf) > 0 /\ Len(buf) >= HeaderLenOnWire(buf)

\* C23: UDP receive success. For every datagram received that begins with a
\* well-formed UDP header, recv and recv_from return the decoded header, whose
\* frag is the third byte of the datagram whatever its value, and as payload
\* the bytes of the datagram from offset header.serialized_len() to its end,
\* so that the encoded header and the payload together have the datagram's
\* length.
C23_RecvSuccess ==
    (RecvReturned /\ socket.state = "received" /\ WellFormedDatagram(socket.buf)) =>
        LET buf == socket.buf
            n == HeaderLenOnWire(buf)
        IN  /\ udpResult.ret.ok
            /\ udpResult.ret.header.frag = buf[3]
            /\ UdpHeaderWriteToBuf(udpResult.ret.header) = SubSeq(buf, 1, n)
            /\ udpResult.ret.pkt = SubSeq(buf, n + 1, Len(buf))
            /\ UdpHeaderSerializedLen(udpResult.ret.header) + Len(udpResult.ret.pkt) = Len(buf)

SendReturned == udpResult # NoUdp /\ udpResult.op \in { "send", "send_to" }

\* C24: UDP send framing. send and send_to hand the socket one datagram, the
\* encoded header followed by the payload (send_to with the destination it
\* was given), and on success return the byte count the socket returned minus
\* header.serialized_len(), which is the number of payload bytes sent.
C24_SendFraming ==
    SendReturned =>
        /\ socket.buf = UdpHeaderWriteToBuf(udpResult.header) \o udpResult.pkt
        /\ udpResult.op = "send_to" => socket.addr = udpResult.addr
        /\ socket.state = "sent" =>
              /\ udpResult.ret.ok
              /\ udpResult.ret.val = socket.count - UdpHeaderSerializedLen(udpResult.header)
              /\ udpResult.ret.val = Len(udpResult.pkt)
        /\ socket.state = "failed" => ~udpResult.ret.ok

C24_Witness ==
    /\ SendReturned
    /\ udpResult.op = "send_to"
    /\ socket.state = "sent"
    /\ udpResult.header.address.kind = "Domain"
    /\ udpResult.header.frag = 7
    /\ udpResult.ret.val = 3
    /\ socket.count = 12

----------------------------------------------------------------------------
(* Associate<Ready>::wait_until_closed                                     *)
(*                                                                         *)
(* One UDP association is followed from accept: the client sends a method  *)
(* request and an ASSOCIATE request, the driver negotiates, and once the   *)
(* handle is Ready the client goes on sending bytes, closes its sending    *)
(* half or the stream fails, while the caller waits.                       *)

\* bytes the client sends on the TCP stream while the association lasts
MaxSent == 2

AssociateInput == <<5, 1, 0>> \o <<5, 3, 0, 1, 0, 0, 0, 0, 0, 0>>

WaitInit ==
    /\ other = NoConn
    /\ codecIn = NoCodec
    /\ codecOut = NoCodec
    /\ buf_size = 0
    /\ socket = NoUdp
    /\ udpResult = NoUdp
    /\ peer = "open"
    /\ reads = <<>>
    /\ input = AssociateInput
    /\ rpos = 0
    /\ auth = NoAuth
    /\ handle = Handle("IncomingConnection", "NeedAuthenticate", "any")
    /\ op = "none"
    /\ pc = "idle"
    /\ methods = <<>>
    /\ command = "none"
    /\ written = <<>>
    /\ executed = 0
    /\ output = [tag |-> "none"]
    /\ result = [tag |-> "none"]
    /\ shut = "no"
    /\ payloadIO = {}

Associated == handle = Handle("Associate", "Ready", "mod")

\* what the client does once the association is Ready
notPeer == <<rpos, auth, handle, op, pc, methods, command, written, executed, output, result,
             shut, payloadIO, other, codecIn, codecOut, buf_size, socket, udpResult, reads>>

PeerSend ==
    /\ Associated
    /\ peer = "open"
    /\ Len(input) < Len(AssociateInput) + MaxSent
    /\ input' = Append(input, 65)
    /\ UNCHANGED <<peer, notPeer>>

PeerClose ==
    /\ Associated
    /\ peer = "open"
    /\ peer' = "closed"
    /\ UNCHANGED <<input, notPeer>>

PeerReset ==
    /\ Associated
    /\ peer = "open"
    /\ peer' = "reset"
    /\ UNCHANGED <<input, notPeer>>

Waiting == op = "Associate::wait_until_closed"

\* the call of wait_until_closed: the loop is entered
WaitUntilClosed ==
    /\ Idle
    /\ Associated
    /\ op' = "Associate::wait_until_closed"
    /\ pc' = "read"
    /\ reads' = <<>>
    /\ UNCHANGED <<input, rpos, auth, handle, methods, command, written, executed, output,
                   result, shut, payloadIO, other, codecIn, codecOut, buf_size, socket,
                   udpResult, peer>>

\* self.stream.read(&mut [0]): an error on a failed stream, one byte when the
\* client sent one, 0 at the end of a closed stream, and pending otherwise
StreamRead ==
    IF peer = "reset" THEN "Err"
    ELSE IF rpos < Len(input) THEN "Ok(1)"
    ELSE IF peer = "closed" THEN "Ok(0)"
    ELSE "Pending"

WaitReturn(r) ==
    /\ result' = r
    /\ op' = "none"
    /\ pc' = "idle"

\* faulty variant: the loop ends on any read that succeeds
WaitMatch_AnyOk(r) ==
    /\ rpos' = IF r = "Ok(1)" THEN rpos + 1 ELSE rpos
    /\ IF r = "Err"
       THEN WaitReturn([tag |-> "Err", op |-> op, err |-> IoError("ReadFailed"), stream |-> FALSE])
       ELSE WaitReturn([tag |-> "Ok", op |-> op, val |-> "()"])

\* the match on what the read returned
WaitMatch(r) ==
    /\ rpos' = IF r = "Ok(1)" THEN rpos + 1 ELSE rpos
    /\ CASE r = "Ok(0)" -> WaitReturn([tag |-> "Ok", op |-> op, val |-> "()"])
         [] r = "Ok(1)" -> UNCHANGED <<result, op, pc>>
         [] r = "Err" -> WaitReturn([tag |-> "Err", op |-> op, err |-> IoError("ReadFailed"),
                                     stream |-> FALSE])

\* one turn of the loop of wait_until_closed
WaitRead ==
    /\ Waiting
    /\ StreamRead # "Pending"
    /\ reads' = Append(reads, StreamRead)
    /\ WaitMatch(StreamRead)
    /\ UNCHANGED <<input, auth, handle, methods, command, written, executed, output, shut,
                   payloadIO, other, codecIn, codecOut, buf_size, socket, udpResult, peer>>

WaitNext ==
    \/ AuthenticateRead
    \/ AuthenticateSelect
    \/ ExecuteNoAuth
    \/ AuthenticateReturn
    \/ WaitRequest
    \/ AssociateReply
    \/ PeerSend
    \/ PeerClose
    \/ PeerReset
    \/ WaitUntilClosed
    \/ WaitRead

WaitSpec == WaitInit /\ [][WaitNext]_vars

\* the task that awaits wait_until_closed is polled whenever the stream has
\* something to give
FairWaitSpec == WaitSpec /\ WF_vars(WaitRead)

----------------------------------------------------------------------------
(* connection/mod.rs, connect.rs: the stage transitions on a stream whose   *)
(* client sends its bytes one at a time and may stop at any point           *)

\* what a client may send in full: a handshake offering NoAuth or Password,
\* a password request where that method is chosen, and a CONNECT request
StallScripts ==
    { <<5, 1, 0>> \o <<5, 1, 0, 1, 127, 0, 0, 1, 0, 80>>,
      <<5, 1, 2>> \o <<1, 1, 117, 1, 112>> \o <<5, 1, 0, 1, 127, 0, 0, 1, 0, 80>>,
      <<5, 1, 2>> \o <<2, 1, 117, 1, 112>> }

\* IncomingConnection::new(stream, auth) on a stream that has delivered nothing yet
StallInit ==
    /\ other = NoConn
    /\ codecIn = NoCodec
    /\ codecOut = NoCodec
    /\ buf_size = 0
    /\ socket = NoUdp
    /\ udpResult = NoUdp
    /\ peer = "open"
    /\ reads = <<>>
    /\ input = <<>>
    /\ rpos = 0
    /\ auth \in Adaptors
    /\ handle = Handle("IncomingConnection", "NeedAuthenticate", "any")
    /\ op = "none"
    /\ pc = "idle"
    /\ methods = <<>>
    /\ command = "none"
    /\ written = <<>>
    /\ executed = 0
    /\ output = [tag |-> "none"]
    /\ result = [tag |-> "none"]
    /\ shut = "no"
    /\ payloadIO = {}

\* the transport delivers the next byte the client sent
ClientSend ==
    /\ peer = "open"
    /\ \E script \in StallScripts :
         /\ Len(input) < Len(script)
         /\ SubSeq(script, 1, Len(input)) = input
         /\ input' = Append(input, script[Len(input) + 1])
    /\ UNCHANGED <<peer, notPeer>>

\* the transport reports the end of the stream
ClientClose ==
    /\ peer = "open"
    /\ peer' = "closed"
    /\ UNCHANGED <<input, notPeer>>

StallNext ==
    \/ ClientSend
    \/ ClientClose
    \/ AuthenticateRead
    \/ AuthenticateSelect
    \/ ExecuteNoAuth
    \/ ExecutePassword
    \/ AuthenticateReturn
    \/ WaitRequest
    \/ ConnectReply

StallSpec == StallInit /\ [][StallNext]_vars

\* the server task awaits each transition as soon as it holds the handle, the
\* runtime polls an await whose read is ready, and the transport goes on
\* delivering what the client sent or reports the end of the stream
FairStallSpec ==
    /\ StallSpec
    /\ WF_vars(ClientSend \/ ClientClose)
    /\ WF_vars(AuthenticateRead)
    /\ WF_vars(AuthenticateSelect)
    /\ WF_vars(ExecuteNoAuth)
    /\ WF_vars(ExecutePassword)
    /\ WF_vars(AuthenticateReturn)
    /\ WF_vars(WaitRequest)
    /\ WF_vars(ConnectReply)

\* the same task on a transport that promises nothing
DriverFairStallSpec ==
    /\ StallSpec
    /\ WF_vars(AuthenticateRead)
    /\ WF_vars(AuthenticateSelect)
    /\ WF_vars(ExecuteNoAuth)
    /\ WF_vars(ExecutePassword)
    /\ WF_vars(AuthenticateReturn)
    /\ WF_vars(WaitRequest)
    /\ WF_vars(ConnectReply)

WaitReturned == Idle /\ result.tag # "none" /\ result.op = "Associate::wait_until_closed"
WaitReturnedWith(tag) == WaitReturned /\ result.tag = tag

\* a return of wait_until_closed, and a turn of its loop that goes on
WaitReturns == Waiting /\ op' = "none"
WaitGoesOn == Waiting /\ op' = op /\ reads' # reads

\* C25: wait_until_closed returns Ok(()) only after a read on the TCP stream
\* returned 0 bytes, which the stream does only once the peer closed its
\* sending half and every byte it sent was read; a read that returns bytes
\* consumes them and leaves the wait going; a read error ends the wait with
\* Err; and a wait under way when the peer has closed or the stream has
\* failed eventually returns.
C25_WaitUntilClosed ==
    /\ [][WaitReturns =>
            /\ reads' # <<>>
            /\ \A i \in 1..(Len(reads') - 1) : reads'[i] = "Ok(1)"
            /\ result'.op = "Associate::wait_until_closed"
            /\ result'.tag = "Ok" <=> reads'[Len(reads')] = "Ok(0)"
            /\ result'.tag = "Ok" => peer = "closed" /\ rpos = Len(input)
            /\ result'.tag = "Err" <=> reads'[Len(reads')] = "Err"
            /\ handle' = handle]_vars
    /\ [][WaitGoesOn =>
            /\ reads'[Len(reads')] = "Ok(1)"
            /\ rpos' = rpos + 1
            /\ result' = result]_vars
    /\ (Waiting /\ peer # "open") ~> WaitReturned

\* the client sent two bytes and closed; the wait read and dropped both, then
\* returned Ok on the read of 0 bytes
C25_Witness ==
    /\ WaitReturnedWith("Ok")
    /\ reads = <<"Ok(1)", "Ok(1)", "Ok(0)">>
    /\ rpos = Len(AssociateInput) + 2
    /\ peer = "closed"

\* the client's first two bytes are a method request that offers no method
EmptyMethodList == Len(input) >= 2 /\ SubSeq(input, 1, 2) = <<SOCKS_VERSION, 0>>

\* C26: a method request with N = 0 (bytes 05 00) is decoded as an empty
\* method list without a byte after it being read, and authenticate then
\* writes 05 FF and gives the stream back with NoAcceptableHandshakeMethod
\* whose list of offered methods is empty, whatever method the server chose,
\* 0x00 included; Auth::execute is not invoked.  (When the stream refuses the
\* write of 05 FF, the stream comes back with the I/O error instead.)
C26_EmptyMethodList ==
    /\ (EmptyMethodList /\ op = "authenticate") =>
          methods = <<>> /\ rpos = 2 /\ pc = "select" /\ written = <<>>
    /\ (EmptyMethodList /\ result.tag # "none" /\ result.op = "authenticate") =>
          /\ rpos = 2
          /\ executed = 0
          /\ result.tag = "Err"
          /\ result.stream
          /\ handle.kind = "TcpStream"
          /\ \/ /\ result.err = NoAcceptableHandshakeMethod(AsHandshakeMethod(auth), <<>>)
                /\ Len(written) = 1
                /\ written[1].bytes = <<SOCKS_VERSION, METHOD_UNACCEPTABLE>>
             \/ /\ result.err = IoError("WriteFailed")
                /\ written = <<>>

\* a NoAuth server answered 05 00 with 05 FF and NoAcceptableHandshakeMethod
C26_Witness ==
    /\ EmptyMethodList
    /\ Len(input) > 2
    /\ auth = NoAuth
    /\ result.tag = "Err"
    /\ result.op = "authenticate"
    /\ result.err = NoAcceptableHandshakeMethod(METHOD_NONE, <<>>)
    /\ written = <<[frame |-> "MethodResponse", bytes |-> <<5, 255>>, by |-> "authenticate"]>>
    /\ rpos = 2

\* the client's bytes of the trace: method request 05 01 00, then CONNECT to
\* 127.0.0.1:80; the caller drives the negotiation and touches the stream
\* itself only once the handle is Ready
ConnectTrace ==
    /\ input = <<5, 1, 0>> \o <<5, 1, 0, 1, 127, 0, 0, 1, 0, 80>>
    /\ auth = NoAuth
    /\ handle.api = "mod"
    /\ \A io \in payloadIO : io.stage = "Ready"

MethodResponseWritten ==
    [frame |-> "MethodResponse", bytes |-> <<5, 0>>, by |-> "authenticate"]
ReplyWritten(reply, addr) ==
    [frame |-> "Response", bytes |-> ResponseWriteToBuf(reply, addr), by |-> "Connect::reply"]

\* what the driver, not the caller, wrote to the stream
IsDriverFrame(f) == f.by # "caller"
DriverWritten == SelectSeq(written, IsDriverFrame)

\* C27: with the NoAuth adaptor and the client input 05 01 00,
\* 05 01 00 01 7F 00 00 01 00 50, the driver writes 05 00 during
\* authenticate (execute reads and writes nothing), nothing during
\* wait_request, which yields Connect in NeedReply with 127.0.0.1:80, and for
\* reply the encoded response, which for (Succeeded, 0.0.0.0:0) is
\* 05 00 00 01 00 00 00 00 00 00; the driver writes nothing else.
C27_NoAuthConnectTrace ==
    /\ ReplyWritten("Succeeded", Unspecified).bytes = <<5, 0, 0, 1, 0, 0, 0, 0, 0, 0>>
    /\ ConnectTrace =>
          /\ \/ DriverWritten = <<>>
             \/ DriverWritten = <<MethodResponseWritten>>
             \/ \E reply \in Replies, addr \in ReplyAddrs :
                   DriverWritten = <<MethodResponseWritten, ReplyWritten(reply, addr)>>
          /\ (pc \in { "execute", "executed" } \/ handle.kind = "Authenticated") =>
                written = <<MethodResponseWritten>> /\ rpos = 3
          /\ handle = Handle("Connect", "NeedReply", "mod") =>
                /\ written = <<MethodResponseWritten>>
                /\ rpos = Len(input)
                /\ result.val = [command |-> "Connect",
                                 address |-> SocketAddressV4(<<127, 0, 0, 1>>, 80)]
          /\ (handle = Handle("Connect", "Ready", "mod") /\ result.op = "Connect::reply") =>
                \E addr \in ReplyAddrs :
                   DriverWritten = <<MethodResponseWritten, ReplyWritten(result.val, addr)>>

\* the whole trace was run: 05 00, then the reply Succeeded with 0.0.0.0:0
C27_Witness ==
    /\ ConnectTrace
    /\ handle = Handle("Connect", "Ready", "mod")
    /\ result.val = "Succeeded"
    /\ written = <<MethodResponseWritten, ReplyWritten("Succeeded", Unspecified)>>
    /\ written[2].bytes = <<5, 0, 0, 1, 0, 0, 0, 0, 0, 0>>

\* an address was made from a name and a port, and encoded
MadeFromName == Encoded("From")

\* C28: every Address that can be made through the public API or that the
\* decoder gives back has a domain label of at most 255 bytes, so that in
\* every encoded domain address the length byte is the number of label bytes
\* that follow it (all the bytes between the length byte and the 2-byte port).
C28_LabelLength ==
    /\ MadeFromName =>
          /\ Len(codecOut.address.name) <= U8_MAX
          /\ codecOut.bytes[2] = Len(codecOut.bytes) - 4
    /\ (DecodedDomain("Address") /\ codecOut.back.ok) =>
          /\ Len(codecOut.back.val.name) <= U8_MAX
          /\ AddressWriteToBuf(codecOut.back.val)[2] = Len(codecOut.back.val.name)

\* read_from of the named frame has been called on bytes that are well-formed
\* up to the address, whose type byte is none of 0x01, 0x03, 0x04
DecodedBadType(decoder) ==
    /\ codecIn.codec = "Bytes"
    /\ codecOut # NoCodec
    /\ codecIn.decoder = decoder
    /\ Len(codecIn.bytes) >= 4
    /\ codecIn.bytes[4] \notin { ATYP_IPV4, ATYP_FQDN, ATYP_IPV6 }
    /\ decoder = "Request" =>
          codecIn.bytes[1] = SOCKS_VERSION /\ CommandTryFrom(codecIn.bytes[2]).ok
    /\ decoder = "Response" =>
          codecIn.bytes[1] = SOCKS_VERSION /\ ReplyTryFrom(codecIn.bytes[2]).ok

\* C29: when Request::read_from has read version 5, a valid command and the
\* reserved byte, and the next byte t is not an address type, it returns
\* Protocol(InvalidAddressTypeInRequest) with version 5, the command already
\* decoded and address_type = t, having read no byte after t; Response and
\* UdpHeader report InvalidAddressTypeInResponse { version, reply,
\* address_type } and InvalidAddressTypeInUdpHeader { frag, address_type } in
\* the same way.
C29_InvalidAddressType ==
    /\ DecodedBadType("Request") =>
          codecOut.back = Err([type |-> "Protocol", variant |-> "InvalidAddressTypeInRequest",
                               version |-> SOCKS_VERSION,
                               command |-> CommandTryFrom(codecIn.bytes[2]).val,
                               address_type |-> codecIn.bytes[4]], 4)
    /\ DecodedBadType("Response") =>
          codecOut.back = Err([type |-> "Protocol", variant |-> "InvalidAddressTypeInResponse",
                               version |-> SOCKS_VERSION,
                               reply |-> ReplyTryFrom(codecIn.bytes[2]).val,
                               address_type |-> codecIn.bytes[4]], 4)
    /\ DecodedBadType("UdpHeader") =>
          codecOut.back = Err([type |-> "Protocol", variant |-> "InvalidAddressTypeInUdpHeader",
                               frag |-> codecIn.bytes[3],
                               address_type |-> codecIn.bytes[4]], 4)

\* Request::read_from has been called on version 5 followed by a byte that is
\* no command
DecodedBadCommand ==
    /\ codecIn.codec = "Bytes"
    /\ codecOut # NoCodec
    /\ codecIn.decoder = "Request"
    /\ Len(codecIn.bytes) >= 2
    /\ codecIn.bytes[1] = SOCKS_VERSION
    /\ codecIn.bytes[2] \notin { CMD_CONNECT, CMD_BIND, CMD_ASSOCIATE }

----------------------------------------------------------------------------
(* The reserved byte, the password response, framing of writes and reads   *)

\* read_from of a request or a response has been called on a frame whose
\* version, command or reply code, and address are well-formed
DecodedWithReserved(decoder) ==
    /\ codecIn.codec = "Bytes"
    /\ codecOut # NoCodec
    /\ codecIn.decoder = decoder
    /\ decoder \in { "Request", "Response" }
    /\ Len(codecIn.bytes) = 10
    /\ codecIn.bytes[1] = SOCKS_VERSION
    /\ codecIn.bytes[2] \in { 1, 3 }
    /\ codecIn.bytes[4] = ATYP_IPV4

\* the same frame with 0x00 in the reserved position
ReservedZeroed(bytes) == [bytes EXCEPT ![3] = 0]

\* C31: Request::read_from and Response::read_from read the third byte and
\* ignore its value: a frame decodes to the same value as the frame that
\* differs from it only in carrying 0x00 there, for every reserved byte
\* 0..255; and the encoders always write 0x00 in that position.
C31_ReservedByte ==
    /\ \A d \in { "Request", "Response" } :
          DecodedWithReserved(d) =>
             /\ codecOut.back.ok
             /\ codecOut.back = ReadFrom(d, ReservedZeroed(codecIn.bytes))
             /\ codecOut.back.pos = Len(codecIn.bytes)
    /\ (Encoded("Request") \/ Encoded("Response")) => codecOut.bytes[3] = 0

C31_Witness ==
    /\ DecodedWithReserved("Request")
    /\ codecIn.bytes[3] = 255
    /\ GaveBack([command |-> "Associate", address |-> SocketAddressV4(<<127, 0, 0, 1>>, 80)])

\* password::Response::read_from has been called on sub-negotiation version
\* 0x01 followed by a status byte
DecodedStatus ==
    /\ codecIn.codec = "Bytes"
    /\ codecOut # NoCodec
    /\ codecIn.decoder = "PasswordResponse"
    /\ Len(codecIn.bytes) >= 2
    /\ codecIn.bytes[1] = SUBNEGOTIATION_VERSION

\* C32: password response decoding is strict. After sub-negotiation version
\* 0x01, status 0x00 decodes to success, 0xFF to failure, and every other
\* status byte is a decode error.
C32_StrictStatus ==
    DecodedStatus =>
        /\ codecOut.back.pos = 2
        /\ codecIn.bytes[2] = STATUS_SUCCEEDED => codecOut.back = Ok(TRUE, 2)
        /\ codecIn.bytes[2] = STATUS_FAILED => codecOut.back = Ok(FALSE, 2)
        /\ codecIn.bytes[2] \notin { STATUS_SUCCEEDED, STATUS_FAILED } =>
              codecOut.back = Err(IoError("InvalidData"), 2)

C32_Witness ==
    /\ DecodedStatus
    /\ codecIn.bytes = <<1, 1>>
    /\ ~codecOut.back.ok

\* C33: password response decoding is liberal. Status 0x00 is accepted as
\* success and every other status byte 0x01..0xFF as failure, so that no
\* status byte is a decode error; the encoder writes only 0x00 or 0xFF.
C33_LiberalStatus ==
    /\ DecodedStatus =>
          /\ codecOut.back.ok
          /\ codecOut.back.val = (codecIn.bytes[2] = STATUS_SUCCEEDED)
    /\ Encoded("PasswordResponse") => codecOut.bytes[2] \in { STATUS_SUCCEEDED, STATUS_FAILED }

\* the bytes of one write are one whole frame of the kind written: the decoder
\* of that kind accepts them and consumes them all
WholeFrame(f) ==
    LET back == IF f.frame = "MethodResponse" THEN HandshakeResponseReadFrom(f.bytes, 0)
                ELSE IF f.frame = "PasswordResponse" THEN PasswordResponseReadFrom(f.bytes, 0)
                ELSE ResponseReadFrom(f.bytes, 0)
    IN  back.ok /\ back.pos = Len(f.bytes)

\* C34: one write per frame. Every frame the driver sends (method response,
\* password response, each reply) is handed to the stream whole in one
\* write_all call: each write of the driver carries exactly one whole frame,
\* a step of the driver makes at most one write, and what was written before
\* stays as it was, so the bytes of two frames are never interleaved and no
\* frame goes out as several writes.
C34_OneWritePerFrame ==
    /\ [](\A i \in 1..Len(written) : IsDriverFrame(written[i]) => WholeFrame(written[i]))
    /\ [][/\ Len(written') <= Len(written) + 1
          /\ SubSeq(written', 1, Len(written)) = written]_vars

\* a method response, a password response and a reply were written, in order
C34_Witness ==
    /\ Len(written) = 3
    /\ written[1].frame = "MethodResponse"
    /\ written[2].frame = "PasswordResponse"
    /\ written[3].frame = "Response"
    /\ \A i \in 1..3 : IsDriverFrame(written[i]) /\ WholeFrame(written[i])

\* the steps in which a stream decoder of the driver succeeds
MethodRequestRead ==
    Idle /\ handle.kind = "IncomingConnection" /\ op' = "authenticate"
PasswordRequestRead ==
    /\ op = "authenticate"
    /\ pc = "execute"
    /\ pc' = "executed"
    /\ auth.adaptor = "Password"
    /\ PasswordRequestReadFrom(input, rpos).ok
RequestFrameRead ==
    Idle /\ handle.kind = "Authenticated" /\ result'.op = "wait_request" /\ result'.tag = "Ok"

\* the length on the wire of the address that starts after position p
AddressLenAt(p) ==
    IF input[p + 1] = ATYP_IPV4 THEN 7
    ELSE IF input[p + 1] = ATYP_IPV6 THEN 19
    ELSE 2 + input[p + 2] + 2

\* C35: no over-read. On success the method request decoder consumes exactly
\* 2 + N bytes, the password request decoder 3 + ulen + plen and the request
\* decoder 3 + the length of the address, where N, ulen and plen are the count
\* bytes of the frame, and not one byte more; what the client pipelined behind
\* the frame is left in the stream, so the next decoder starts at the first
\* byte of the next frame.
C35_NoOverRead ==
    /\ [][MethodRequestRead =>
            /\ rpos' = rpos + 2 + input[rpos + 2]
            /\ methods' = SubSeq(input, rpos + 3, rpos')]_vars
    /\ [][PasswordRequestRead =>
            rpos' = rpos + 3 + input[rpos + 2] + input[rpos + 3 + input[rpos + 2]]]_vars
    /\ [][RequestFrameRead =>
            /\ rpos' = rpos + 3 + AddressLenAt(rpos + 3)
            /\ rpos' = rpos + 3 + AddressSerializedLen(result'.val.address)]_vars

\* the three frames came pipelined with payload behind them, and the request
\* decoder stopped where the payload starts
C35_Witness ==
    /\ input = <<5, 2, 0, 2>> \o <<1, 1, 117, 1, 112>> \o <<5, 1, 0, 3, 2, 104, 105, 1, 187>> \o <<65>>
    /\ result.tag = "Ok"
    /\ result.op = "wait_request"
    /\ rpos = Len(input) - 1
    /\ executed = 1
    /\ handle.api = "mod"

----------------------------------------------------------------------------
(* The receive buffer size, termination, and the arithmetic of lengths      *)

Min(a, b) == IF a < b THEN a ELSE b

\* a receive is between its load of the size and the socket's answer
RecvPending == socket # NoUdp /\ socket.state = "pending"

\* C36: get_max_pkt_size returns the value of the most recent
\* set_max_pkt_size, or the construction value when there was none, the size
\* changing by set_max_pkt_size alone; each recv / recv_from reads the size
\* once, at its start, and receives into a buffer of that size, so that the
\* datagram it returns, header and payload together, is never longer than
\* that size; a set_max_pkt_size that runs while the receive is pending does
\* not change what that receive returns.
C36_BufferSize ==
    /\ [][/\ (udpResult' # udpResult /\ udpResult'.op = "get_max_pkt_size") =>
                udpResult'.val = buf_size /\ buf_size' = buf_size
          /\ (~RecvPending /\ RecvPending') => socket'.size = buf_size /\ buf_size' = buf_size
          /\ (RecvPending /\ RecvPending') => socket' = socket
          /\ (RecvPending /\ ~RecvPending' /\ socket'.state = "received") =>
                /\ socket'.buf = IntoBuffer(socket.will.datagram, socket.size)
                /\ udpResult'.ret = Received(socket'.buf)]_vars
    /\ [](RecvReturned /\ socket.state = "received" =>
             /\ Len(socket.buf) = Min(Len(socket.datagram), socket.size)
             /\ udpResult.ret.ok =>
                   UdpHeaderSerializedLen(udpResult.ret.header) + Len(udpResult.ret.pkt)
                      <= socket.size)

\* a receive that began with a 10-byte buffer returned 10 bytes of a longer
\* datagram although the size was 65535 by the time the datagram came
C36_Witness ==
    /\ RecvReturned
    /\ socket.state = "received"
    /\ socket.size = 10
    /\ buf_size = 65535
    /\ Len(socket.datagram) > 10
    /\ Len(socket.buf) = 10
    /\ udpResult.ret.ok

\* the closure of send / send_to was applied to a count of the socket
Mapped == udpResult # NoUdp /\ udpResult.op = "map"

C40_LengthPrefixes ==
    /\ Encoded("NewHandshakeRequest") =>
          /\ codecOut.bytes[2] = Len(codecIn.methods)
          /\ HandshakeRequestReadFrom(codecOut.bytes, 0) =
                Ok(codecIn.methods, Len(codecOut.bytes))
    /\ Encoded("NewPasswordRequest") =>
          /\ codecOut.bytes[2] = Len(codecIn.login.username)
          /\ codecOut.bytes[3 + Len(codecIn.login.username)] = Len(codecIn.login.password)
          /\ PasswordRequestReadFrom(codecOut.bytes, 0) =
                Ok(codecIn.login, Len(codecOut.bytes))

----------------------------------------------------------------------------
(* The failure path of the password sub-negotiation                        *)

\* a step of Password::execute
PasswordStep == pc = "execute" /\ pc' = "executed" /\ auth.adaptor = "Password"

\* the password responses written so far
PasswordResponsesWritten ==
    Cardinality({ i \in 1..Len(written) : written[i].frame = "PasswordResponse" })

\* C38: the failure path of the password sub-negotiation. When Password::execute
\* fails while reading the password request (a sub-negotiation version other
\* than 0x01, or the end of the stream inside the frame), it writes nothing and
\* its output is Err of that error; authenticate then still returns the
\* Authenticated handle, with that output. A password response is written only
\* by a step that read a complete request, and every step that read one writes
\* it (or has its write refused by the transport, and then returns that error).
C38_PasswordFailurePath ==
    /\ [][ PasswordStep =>
             LET r == PasswordRequestReadFrom(input, rpos) IN
             IF ~r.ok
             THEN /\ written' = written
                  /\ output' = [tag |-> "Err", err |-> r.err]
             ELSE \/ /\ Len(written') = Len(written) + 1
                     /\ written'[Len(written')].frame = "PasswordResponse"
                     /\ output'.tag = "Ok"
                  \/ /\ written' = written
                     /\ output' = [tag |-> "Err", err |-> IoError("WriteFailed")] ]_vars
    /\ [][ (op = "authenticate" /\ pc = "executed") =>
             /\ handle' = Handle("Authenticated", "NeedCommand", "mod")
             /\ result' = [tag |-> "Ok", op |-> "authenticate", val |-> output]
             /\ written' = written ]_vars
    /\ [][ (~PasswordStep) =>
             \A i \in 1..Len(written') :
                 (written'[i].frame = "PasswordResponse") =>
                     (i <= Len(written) /\ written[i] = written'[i]) ]_vars

\* authenticate returned the Authenticated handle with the error of a password
\* request of sub-negotiation version 2, and no password response was written
C38_Witness ==
    /\ Idle
    /\ auth.adaptor = "Password"
    /\ handle.kind = "Authenticated"
    /\ result.tag = "Ok"
    /\ result.op = "authenticate"
    /\ result.val.tag = "Err"
    /\ result.val.err # IoError("WriteFailed")
    /\ input[rpos] = 2
    /\ PasswordResponsesWritten = 0

----------------------------------------------------------------------------
(* Termination of the stage transitions                                    *)

\* the frame the transition under way reads has not come whole, nothing in
\* what came refuses it, and the client has not closed
ShortOf(r) == IF r.ok THEN FALSE ELSE peer = "open" /\ r.err = IoError("UnexpectedEof")

\* a transition is held by a client that stopped in the middle of a frame
Stalled ==
    \/ Idle /\ handle.kind = "IncomingConnection"
            /\ ShortOf(HandshakeRequestReadFrom(input, rpos))
    \/ pc = "execute" /\ auth.adaptor = "Password"
            /\ ShortOf(PasswordRequestReadFrom(input, rpos))
    \/ Idle /\ handle.kind = "Authenticated"
            /\ ShortOf(RequestReadFrom(input, rpos))

\* a transition is to be made or under way
AuthenticatePending == handle.kind = "IncomingConnection" \/ op = "authenticate"
WaitRequestPending == Idle /\ handle.kind = "Authenticated"
ReplyPending == Idle /\ handle = Handle("Connect", "NeedReply", "mod")

\* transition o returned: Ok with the next handle, or Err with the stream
StageReturned(o, next) ==
    /\ Idle
    /\ result.tag # "none"
    /\ result.op = o
    /\ \/ result.tag = "Ok" /\ handle.kind = next
       \/ result.tag = "Err" /\ handle = RawStream

\* C37: termination without timeouts. On a transport that goes on delivering
\* the client's bytes or reports the end of the stream, and with writes that
\* return, every stage transition (authenticate, wait_request, reply) returns:
\* with the handle of the next stage or with an error and the stream. The driver
\* has no timeout: a transition held by a client that stopped in the middle of
\* a frame returns nothing and changes nothing, and leaves that state only when
\* the client sends another byte or closes.
C37_Termination ==
    /\ AuthenticatePending ~> StageReturned("authenticate", "Authenticated")
    /\ WaitRequestPending ~> StageReturned("wait_request", "Connect")
    /\ ReplyPending ~> StageReturned("Connect::reply", "Connect")
    /\ [][ Stalled => /\ <<handle, result, op, pc, rpos, written, output>>' =
                            <<handle, result, op, pc, rpos, written, output>>
                      /\ (input' # input \/ peer' # peer) ]_vars

\* authenticate returned Ok(true) on a password request that the client, which
\* never closed, delivered a byte at a time: the await was pending until the last
C37_Witness ==
    /\ peer = "open"
    /\ StageReturned("authenticate", "Authenticated")
    /\ auth.adaptor = "Password"
    /\ output = [tag |-> "Ok", val |-> TRUE]
    /\ Len(input) = rpos

====
